---------------------------- MODULE Spec2Model ----------------------------
(***************************************************************************)
(* A model of the tail_mysql client connection (src/src/conn.rs,           *)
(* src/src/protocol.rs, src/src/buf_ext.rs, src/src/value.rs) and of the   *)
(* binlog event decoders (src/src/protocol_binlog.rs).                     *)
(*                                                                         *)
(* The inbound byte stream is the concatenation of the frames the peer has *)
(* sent (wire); the connection's read buffer is the window                 *)
(* [buffer.lo, buffer.hi) of that stream: read_buf appends the next bytes  *)
(* of the stream at the back, advance() drops bytes at the front.  Every   *)
(* byte the framer looks at is computed from the stream by ByteAt.         *)
(* The frames a command has fully consumed are dropped from wire when the  *)
(* next command starts, and the offsets are rebased: wire, out, columns    *)
(* and rows describe the current command.                                  *)
(* An outbound payload is identified by its length; the frames written are *)
(* kept as [seq, len, off], off being the offset of the frame's first      *)
(* payload byte in the payload.                                            *)
(*                                                                         *)
(* A client task is suspended at socket reads and socket writes (pc), and  *)
(* one action is one run of the code from a suspension point to the next.  *)
(***************************************************************************)
EXTENDS Integers, Sequences, FiniteSets, TLC

VARIABLES
  wire,            \* peer: the frames sent so far, in order
  wireLen,         \* peer: number of bytes of the stream transmitted
  peerClosed,      \* peer: has closed its side of the socket
  srvSeq,          \* peer: sequence id of its next frame
  buffer,          \* Connection.buffer, as a window of the inbound stream
  sequence_id,     \* Connection.sequence_id
  last_command_id, \* Connection.last_command_id
  pc,              \* where the client task is suspended
  cont,            \* what the task does when the pending read or write completes
  ret,             \* what the last read_payload / operation returned
  wLen,            \* write_payload: payload.len(), as a Size
  wOff,            \* write_payload: bytes of the payload already framed, as a Size
  out,             \* socket: the frames offered to stream.write, in order
  socketShort,     \* socket: some write accepted fewer bytes than offered
  nRead,           \* number of packets read_packet has returned, of those in wire
  nCmds,           \* number of commands written
  srv,             \* peer: where the server is in its reply to the current command
  opts,            \* Connection.opts
  capabilities,    \* Connection.capabilities
  advertised,      \* the capabilities of the server's greeting
  okState,         \* Connection.affected_rows, last_inserted_id, status_flags, warnings
  auth_plugin_name,    \* handle_handshake: the plugin name of the greeting
  handshake_response,  \* write_handshake_response: the payload it built
  column_count,    \* read_results: the column count of the reply header
  columns,         \* read_columns: the columns read so far
  rows,            \* read_rows: the rows read so far
  binlog,          \* where binlog_stream and the event stream it returns are
  items,           \* the items the event stream has yielded, in order
  last_packet,     \* the event packet decoded last: its bytes, the BinlogEventPacket parsed
  codec            \* a cursor handed to a decoder of BufExt, and what the decoder returned

netVars == <<wire, wireLen, peerClosed, srvSeq>>
peerVars == <<wire, wireLen, peerClosed, srvSeq, srv>>
readVars == <<buffer, nRead>>
writeVars == <<wLen, wOff, out, socketShort, last_command_id, nCmds>>
connVars == <<opts, capabilities, advertised, okState>>
handshakeVars == <<auth_plugin_name, handshake_response>>
resVars == <<column_count, columns, rows>>
streamVars == <<binlog, items, last_packet, codec>>
vars == <<wire, wireLen, peerClosed, srvSeq, buffer, sequence_id, last_command_id,
          pc, cont, ret, wLen, wOff, out, socketShort, nRead, nCmds,
          srv, opts, capabilities, advertised, okState, auth_plugin_name, handshake_response,
          column_count, columns, rows, binlog, items, last_packet, codec>>

-----------------------------------------------------------------------------
(* Program constants *)

MAX_PAYLOAD_LEN == 16777215

U8 == 256

COM_QUERY == 3
COM_PING == 14
COM_BINLOG_DUMP == 18
COM_REGISTER_SLAVE == 21

(* Bounds of the model *)

MaxFrames == 2      \* frames the peer sends in one run of the framer
Slack == 4          \* a socket read ends at most this far from a frame boundary
MaxCmds == 2        \* commands a connection writes
MaxCols == 2        \* columns of a result set
MaxRows == 2        \* rows of a result set

-----------------------------------------------------------------------------
(* The inbound stream *)

Min(a, b) == IF a < b THEN a ELSE b

FrameSize(f) == 4 + f.len

RECURSIVE StreamLen(_)
StreamLen(w) == IF w = <<>> THEN 0 ELSE FrameSize(Head(w)) + StreamLen(Tail(w))

\* offset in the stream of the first byte of frame i+1, i.e. the size of the first i frames
FrameStart(w, i) == StreamLen(SubSeq(w, 1, i))

\* byte j (from 1) of a frame's payload; bytes not spelled out in f.bytes are j mod 256
PayloadByte(f, j) == IF j <= Len(f.bytes) THEN f.bytes[j] ELSE j % U8

\* byte j (from 0) of a frame: 3-byte little-endian length, sequence id, payload
FrameByte(f, j) ==
  IF j = 0 THEN f.len % 256
  ELSE IF j = 1 THEN (f.len \div 256) % 256
  ELSE IF j = 2 THEN (f.len \div 65536) % 256
  ELSE IF j = 3 THEN f.seq
  ELSE PayloadByte(f, j - 3)

RECURSIVE ByteAt(_, _)
ByteAt(w, i) ==
  IF w = <<>> THEN 0
  ELSE IF i < FrameSize(Head(w)) THEN FrameByte(Head(w), i)
  ELSE ByteAt(Tail(w), i - FrameSize(Head(w)))

\* Buf::get_uint_le(3) at offset p of the stream
GetUintLe3(p) == ByteAt(wire, p) + 256 * ByteAt(wire, p + 1) + 65536 * ByteAt(wire, p + 2)

Remaining(b) == b.hi - b.lo

\* Packet::check, were the four header bytes not counted
PacketCheckNoHeader(b) == Remaining(b) >= 4 /\ Remaining(b) >= GetUintLe3(b.lo)

\* Packet::check
PacketCheck(b) == Remaining(b) >= 4 /\ Remaining(b) - 4 >= GetUintLe3(b.lo)

\* Packet::parse on the window b, payload_len being its get_uint_le(3): the packet, and
\* the cursor position after it
PacketOf(b, payload_len) ==
  [sequence_id |-> ByteAt(wire, b.lo + 3),
   from |-> b.lo + 4,
   len |-> payload_len,
   position |-> 4 + payload_len]

PacketParse(b) == PacketOf(b, GetUintLe3(b.lo))

\* a counter that saturates instead
SaturatingAdd1(s) == Min(s + 1, U8 - 1)

\* u8::wrapping_add(1)
WrappingAdd1(s) == (s + 1) % U8

\* check_sequence_id, were the counter to move on a mismatch too
CheckSequenceIdAlways(expected, id) ==
  [ok |-> expected = id, next |-> WrappingAdd1(expected)]

\* Connection::check_sequence_id
CheckSequenceId(expected, id) ==
  IF expected # id
    THEN [ok |-> FALSE, next |-> expected]
    ELSE [ok |-> TRUE, next |-> WrappingAdd1(expected)]

\* the two errors swapped
ZeroReadErrorSwapped(b) ==
  IF Remaining(b) = 0 THEN "ConnectionResetByPeer" ELSE "ConnectionClosed"

\* Connection::read_packet, when the socket read returns 0
ZeroReadError(b) ==
  IF Remaining(b) = 0 THEN "ConnectionClosed" ELSE "ConnectionResetByPeer"

NoRet == [kind |-> "none", err |-> "", from |-> 0, len |-> 0]
Payload(from, len) == [kind |-> "payload", err |-> "", from |-> from, len |-> len]
Err(e) == [kind |-> "err", err |-> e, from |-> 0, len |-> 0]
Ok == [kind |-> "ok", err |-> "", from |-> 0, len |-> 0]

\* binlog outside binlog_stream: at is then the step of binlog_stream whose reply is
\* awaited ("position", "checksum", "register", "dump"), "streaming" once the event
\* stream was returned and "dropped" once the caller has dropped the stream; file is
\* the file name binlog_stream read, or was given
NoStream == [at |-> "none", file |-> <<>>]

\* no event packet has been decoded yet
NoPacket == [bytes |-> <<>>, parsed |-> <<>>]

\* codec when no decoder of BufExt is under test
NoCodec == [op |-> "none", input |-> <<>>, n |-> 0, result |-> <<>>]

-----------------------------------------------------------------------------
(* bytes::Buf and BufExt.  A cursor is the sequence of the bytes not yet    *)
(* read.  A read yields [st, v, b]: st is "ok", "eof" or "invalid" (the two *)
(* io::Error kinds) or "panic"; v is the value read, b the cursor after it. *)
(* An operator named ...After takes the result of the read before it.       *)

Done(v, b) == [st |-> "ok", v |-> v, b |-> b]
Fail(st, b) == [st |-> st, v |-> 0, b |-> b]
Take(b, n) == SubSeq(b, 1, n)
Drop(b, n) == SubSeq(b, n + 1, Len(b))

RECURSIVE LeValue(_)
LeValue(b) == IF b = <<>> THEN 0 ELSE Head(b) + 256 * LeValue(Tail(b))

\* BufMut::put_uint_le, put_u16_le, put_u32_le
RECURSIVE PutUintLe(_, _)
PutUintLe(v, nbytes) == IF nbytes = 0 THEN <<>> ELSE <<v % 256>> \o PutUintLe(v \div 256, nbytes - 1)

\* Buf::get_uint_le, get_u16_le, get_u32_le: they panic when too few bytes remain
GetUintLe(b, nbytes) ==
  IF Len(b) >= nbytes THEN Done(LeValue(Take(b, nbytes)), Drop(b, nbytes)) ELSE Fail("panic", b)

GetU8(b) == GetUintLe(b, 1)

SafeGetU8(b) == IF Len(b) >= 1 THEN GetU8(b) ELSE Fail("eof", b)

SafeGetUintLe(b, nbytes) == IF Len(b) >= nbytes THEN GetUintLe(b, nbytes) ELSE Fail("eof", b)

\* safe_get_lenc_uint, were 0xfd to announce 4 bytes
LencUintAfterFour(h) ==
  IF h.st # "ok" THEN h
  ELSE IF h.v = 252 THEN SafeGetUintLe(h.b, 2)
  ELSE IF h.v = 253 THEN SafeGetUintLe(h.b, 4)
  ELSE IF h.v = 254 THEN SafeGetUintLe(h.b, 8)
  ELSE IF h.v = 255 THEN Fail("invalid", h.b)
  ELSE h

\* safe_get_lenc_uint after its safe_get_u8: 0xfc, 0xfd, 0xfe announce 2, 3, 8 bytes;
\* 0xff is invalid
LencUintAfter(h) ==
  IF h.st # "ok" THEN h
  ELSE IF h.v = 252 THEN SafeGetUintLe(h.b, 2)
  ELSE IF h.v = 253 THEN SafeGetUintLe(h.b, 3)
  ELSE IF h.v = 254 THEN SafeGetUintLe(h.b, 8)
  ELSE IF h.v = 255 THEN Fail("invalid", h.b)
  ELSE h

SafeGetLencUint(b) == LencUintAfter(SafeGetU8(b))

\* Result::unwrap
Unwrap(r) == IF r.st = "ok" THEN r ELSE Fail("panic", r.b)

GetLencUint(b) == Unwrap(SafeGetLencUint(b))

\* String::from_utf8 accepts the bytes.  The texts of the model are ASCII; the other
\* bytes it uses are 0xFB..0xFF, which no UTF-8 text contains
IsUtf8(bytes) == \A i \in 1..Len(bytes) : bytes[i] < 128

SafeGetFixedLengthString(b, len) ==
  IF Len(b) >= len
    THEN IF IsUtf8(Take(b, len)) THEN Done(Take(b, len), Drop(b, len)) ELSE Fail("invalid", Drop(b, len))
    ELSE Fail("eof", b)

GetFixedLengthString(b, len) == Unwrap(SafeGetFixedLengthString(b, len))

\* safe_get_lenc_string after its safe_get_lenc_uint
LencStringAfter(n) == IF n.st # "ok" THEN n ELSE SafeGetFixedLengthString(n.b, n.v)

SafeGetLencString(b) == LencStringAfter(SafeGetLencUint(b))

GetLencString(b) == Unwrap(SafeGetLencString(b))

SafeGetEofString(b) == SafeGetFixedLengthString(b, Len(b))

GetEofString(b) == Unwrap(SafeGetEofString(b))

\* safe_get_lenc_bytes after its safe_get_lenc_uint; copy_to_slice panics when fewer
\* than len bytes remain
LencBytesAfter(n) ==
  IF n.st # "ok" THEN n
  ELSE IF Len(n.b) >= n.v THEN Done(Take(n.b, n.v), Drop(n.b, n.v)) ELSE Fail("panic", n.b)

SafeGetLencBytes(b) == LencBytesAfter(SafeGetLencUint(b))

GetLencBytes(b) == Unwrap(SafeGetLencBytes(b))

\* the reads a parser makes one after the other, each a record: [k |-> "uint", n |-> 2]
\* is get_u16_le, and so on
Uint(n) == [k |-> "uint", n |-> n]
Lenc == [k |-> "lenc", n |-> 0]
LencString == [k |-> "lenc_string", n |-> 0]
FixedLengthString(n) == [k |-> "fixed_length_string", n |-> n]
EofString == [k |-> "eof_string", n |-> 0]

SplitTo(n) == [k |-> "split_to", n |-> n]
Advance(n) == [k |-> "advance", n |-> n]
SplitToNull == [k |-> "split_to_null", n |-> 0]
NullTerminatedString == [k |-> "null_terminated_string", n |-> 0]

\* util::null_terminated_pos: the number of bytes before the first 0x00, or all of them
NullTerminatedPos(b) ==
  IF \E i \in 1..Len(b) : b[i] = 0
    THEN (CHOOSE i \in 1..Len(b) : b[i] = 0 /\ \A j \in 1..(i - 1) : b[j] # 0) - 1
    ELSE Len(b)

\* Bytes::split_to and Buf::advance panic beyond the end
GetSplitTo(b, n) == IF Len(b) >= n THEN Done(Take(b, n), Drop(b, n)) ELSE Fail("panic", b)
GetAdvance(b, n) == IF Len(b) >= n THEN Done(<<>>, Drop(b, n)) ELSE Fail("panic", b)

\* safe_null_terminated_string: the bytes before the first 0x00 of the chunk, or all of
\* them, read as a string of that length; the terminator stays in the buffer
SafeNullTerminatedString(b) == SafeGetFixedLengthString(b, NullTerminatedPos(b))

GetNullTerminatedString(b) == Unwrap(SafeNullTerminatedString(b))

GetField(b, f) ==
  CASE f.k = "uint" -> GetUintLe(b, f.n)
    [] f.k = "lenc" -> GetLencUint(b)
    [] f.k = "lenc_string" -> GetLencString(b)
    [] f.k = "fixed_length_string" -> GetFixedLengthString(b, f.n)
    [] f.k = "eof_string" -> GetEofString(b)
    [] f.k = "split_to" -> GetSplitTo(b, f.n)
    [] f.k = "advance" -> GetAdvance(b, f.n)
    [] f.k = "split_to_null" -> GetSplitTo(b, NullTerminatedPos(b))
    [] f.k = "null_terminated_string" -> GetNullTerminatedString(b)

\* the value v followed by the values of the reads rest
Cons(v, rest) == IF rest.st # "ok" THEN rest ELSE Done(<<v>> \o rest.v, rest.b)

\* the reads fs from the cursor b: the values read, or the panic of the first that fails
RECURSIVE GetFields(_, _)
RECURSIVE FieldsAfter(_, _)
FieldsAfter(r, fs) == IF r.st # "ok" THEN Fail("panic", r.b) ELSE Cons(r.v, GetFields(r.b, fs))
GetFields(b, fs) == IF fs = <<>> THEN Done(<<>>, b) ELSE FieldsAfter(GetField(b, Head(fs)), Tail(fs))

-----------------------------------------------------------------------------
(* Capability and status flags: a flag set is the set of the values of its *)
(* flags, so that & is the intersection and bits() the sum.                *)

CLIENT_LONG_PASSWORD == 1
CLIENT_LONG_FLAG == 4
CLIENT_CONNECT_WITH_DB == 8
CLIENT_COMPRESS == 32
CLIENT_PROTOCOL_41 == 512
CLIENT_SSL == 2048
CLIENT_TRANSACTIONS == 8192
CLIENT_SECURE_CONNECTION == 32768
CLIENT_PLUGIN_AUTH == 524288
CLIENT_SESSION_TRACK == 8388608
CLIENT_DEPRECATE_EOF == 16777216

\* the flags the bitflags! blocks define: bits 0..24 and 29..31, and bits 0, 1, 3..14.
\* Bit 31 (CLIENT_REMEMBER_OPTIONS) is beyond the integers of TLC: no greeting of the
\* model sets it, and no code of the client reads it
CapabilityFlags == {2^i : i \in (0..24) \cup {29, 30}}
StatusFlags == {2^i : i \in {0, 1} \cup (3..14)}

FromBitsTruncate(flags, v) == {f \in flags : (v \div f) % 2 = 1}

RECURSIVE Bits(_)
Bits(fs) == IF fs = {} THEN 0 ELSE LET f == CHOOSE x \in fs : TRUE IN f + Bits(fs \ {f})

-----------------------------------------------------------------------------
(* protocol.rs: the packets of a reply.  A parser yields a record whose st *)
(* is "ok" or "panic".                                                     *)

\* From<u8> for CharacterSet and for ColumnType: the ids they know
CharacterSetIds ==
  {1, 3, 4, 6, 7, 8, 9, 10, 11, 12, 13, 16, 18, 19, 22, 24, 25, 26, 28, 30, 32, 33, 35, 36, 37,
   38, 39, 40, 41, 83, 54, 56, 57, 59, 60, 63, 92, 95, 97, 248, 255}
ColumnTypeIds == (0..13) \cup (15..19) \cup (245..255)

NoOk == [st |-> "panic", affected_rows |-> 0, last_inserted_id |-> 0, status_flags |-> {}, warnings |-> 0]

\* ServerOk::parse: its reads up to info
ServerOkFields(caps) ==
  <<Uint(1), Lenc, Lenc>>
    \o (IF CLIENT_PROTOCOL_41 \in caps \/ CLIENT_TRANSACTIONS \in caps THEN <<Uint(2)>> ELSE <<>>)
    \o (IF CLIENT_PROTOCOL_41 \in caps THEN <<Uint(2)>> ELSE <<>>)
    \o (IF CLIENT_SESSION_TRACK \in caps THEN <<LencString>> ELSE <<EofString>>)

\* ServerOk::parse after those reads.  status_flags and warnings are given as handle_ok
\* reads them: empty and 0 when the packet has none.  16384 is SERVER_SESSION_STATE_CHANGED
ServerOkAfter(r, caps) ==
  IF r.st # "ok" THEN NoOk
  ELSE IF /\ CLIENT_SESSION_TRACK \in caps
          /\ (CLIENT_PROTOCOL_41 \in caps \/ CLIENT_TRANSACTIONS \in caps)
          /\ 16384 \in FromBitsTruncate(StatusFlags, r.v[4])
          /\ GetLencString(r.b).st # "ok"
    THEN NoOk
  ELSE [st |-> "ok",
        affected_rows |-> r.v[2],
        last_inserted_id |-> r.v[3],
        status_flags |-> IF CLIENT_PROTOCOL_41 \in caps \/ CLIENT_TRANSACTIONS \in caps
                           THEN FromBitsTruncate(StatusFlags, r.v[4])
                           ELSE {},
        warnings |-> IF CLIENT_PROTOCOL_41 \in caps THEN r.v[5] ELSE 0]

ServerOkParse(payload, caps) == ServerOkAfter(GetFields(payload, ServerOkFields(caps)), caps)

\* ServerError::parse: whether it returns or panics
ServerErrorParse(payload, caps) ==
  GetFields(payload,
    <<Uint(1), Uint(2)>>
      \o (IF CLIENT_PROTOCOL_41 \in caps THEN <<FixedLengthString(1), FixedLengthString(5)>> ELSE <<>>)
      \o <<EofString>>).st

NoColumn == [st |-> "panic", name |-> <<>>, character_set |-> 0, column_type |-> 0]

\* Column::parse after its reads: the panics of the two assertions and of the conversions
\* of the character set and of the column type; "def" is 100 101 102
ColumnAfter(r) ==
  IF r.st = "ok" /\ r.v[1] = <<100, 101, 102>> /\ r.v[7] = 12
       /\ (r.v[8] % U8) \in CharacterSetIds /\ r.v[10] \in ColumnTypeIds
    THEN [st |-> "ok", name |-> r.v[5], character_set |-> r.v[8] % U8, column_type |-> r.v[10]]
    ELSE NoColumn

\* Column::parse
ColumnParse(payload) ==
  ColumnAfter(GetFields(payload,
    <<LencString, LencString, LencString, LencString, LencString, LencString, Lenc,
      Uint(2), Uint(4), Uint(1), Uint(2), Uint(1)>>))

\* a text value, after get_lenc_bytes
BytesAfter(v) ==
  IF v.st = "ok"
    THEN [st |-> "ok", kind |-> "Bytes", bytes |-> v.v]
    ELSE [st |-> "panic", kind |-> "Null", bytes |-> <<>>]

\* Value::parse_from_text: the value at the cursor, NULL being the byte 0xFB
ValueParseFromText(b) ==
  IF b # <<>> /\ b[1] = 251
    THEN [st |-> "ok", kind |-> "Null", bytes |-> <<>>]
    ELSE BytesAfter(GetLencBytes(b))

\* Value::parse2(&payload[..], column): the text value at the start of the slice
ValueParse2(payload, column) == ValueParseFromText(payload)

\* the responses the classifiers return; a panic inside one is the kind "panic"
OkResponse(kind, ok) ==
  [kind |-> IF ok.st = "ok" THEN kind ELSE "panic", ok |-> ok, column_count |-> 0, column |-> NoColumn, row |-> <<>>]
Response(kind) == [kind |-> kind, ok |-> NoOk, column_count |-> 0, column |-> NoColumn, row |-> <<>>]
ErrResponse(kind, st) == Response(IF st = "ok" THEN kind ELSE "panic")
ResultSetResponse(n) == [Response(IF n.st = "ok" THEN "ResultSet" ELSE "panic") EXCEPT !.column_count = n.v]
ColumnResponse(column) == [Response(IF column.st = "ok" THEN "ColumnDefinition" ELSE "panic") EXCEPT !.column = column]
RowResponse(values) ==
  [Response(IF \A i \in DOMAIN values : values[i].st = "ok" THEN "Row" ELSE "panic") EXCEPT !.row = values]

\* Payload::as_server_ok; payload[0] of an empty payload is out of bounds
AsServerOk(payload, caps) ==
  IF payload # <<>> /\ payload[1] = 0 THEN ServerOkParse(payload, caps) ELSE NoOk

\* Payload::as_generic_response: OK or ERR
AsGenericResponse(payload, caps) ==
  IF payload = <<>> THEN Response("panic")
  ELSE IF payload[1] = 0 \/ (payload[1] = 254 /\ CLIENT_DEPRECATE_EOF \in caps /\ Len(payload) < 9)
    THEN OkResponse("ServerOk", ServerOkParse(payload, caps))
  ELSE IF payload[1] = 255
    THEN ErrResponse("ServerError", ServerErrorParse(payload, caps))
  ELSE Response("other")

\* Payload::as_query_response
AsQueryResponse(payload, caps) ==
  IF payload = <<>> THEN Response("panic")
  ELSE IF payload[1] = 0 THEN OkResponse("Success", ServerOkParse(payload, caps))
  ELSE IF payload[1] = 255 THEN ErrResponse("Failure", ServerErrorParse(payload, caps))
  ELSE IF payload[1] = 251 THEN Response("LocalInfile")
  ELSE ResultSetResponse(GetLencUint(payload))

\* Payload::as_column_definition_response
AsColumnDefinitionResponse(payload, caps) ==
  IF payload = <<>> THEN Response("panic")
  ELSE IF payload[1] = 0 THEN OkResponse("Success", ServerOkParse(payload, caps))
  ELSE ColumnResponse(ColumnParse(payload))

\* the loop of as_row_response over the first n columns
RowValues(payload, cols, n) == [i \in 1..n |-> ValueParse2(payload, cols[i])]

\* as_row_response with a loop that stops one column early
AsRowResponseShort(payload, caps, cols) ==
  IF payload = <<>> THEN Response("panic")
  ELSE IF payload[1] = 0 \/ payload[1] = 254 THEN OkResponse("Success", ServerOkParse(payload, caps))
  ELSE RowResponse(RowValues(payload, cols, Len(cols) - 1))

\* Payload::as_row_response
AsRowResponse(payload, caps, cols) ==
  IF payload = <<>> THEN Response("panic")
  ELSE IF payload[1] = 0 \/ payload[1] = 254 THEN OkResponse("Success", ServerOkParse(payload, caps))
  ELSE RowResponse(RowValues(payload, cols, Len(cols)))

\* Connection::handle_ok
HandleOk(ok) ==
  [affected_rows |-> ok.affected_rows,
   last_inserted_id |-> ok.last_inserted_id,
   status_flags |-> ok.status_flags,
   warnings |-> ok.warnings]

-----------------------------------------------------------------------------
(* The packets a server sends, as the parsers above read them *)

\* a length-encoded string of fewer than 251 bytes
LencStr(bytes) == <<Len(bytes)>> \o bytes

\* OK with no affected rows, status SERVER_STATUS_AUTOCOMMIT, no warnings; header 0x00,
\* or 0xFE where it ends a result set under CLIENT_DEPRECATE_EOF
OkPacket(header) == <<header, 0, 0, 2, 0, 0, 0>>

\* EOF: 0xFE, warnings, status
EofPacket == <<254, 0, 0, 2, 0>>

\* ERR 1064 #42000 "x"
ErrPacket == <<255, 40, 4, 35, 52, 50, 48, 48, 48, 120>>

\* LOCAL INFILE request for the file "f"
LocalInfilePacket == <<251, 102>>

\* catalog "def", schema "s", table "t", org_table "t", name and org_name c, then 0x0C,
\* character set utf8, length 255, type VAR_STRING, no flags, no decimals, filler
ColumnDefinitionPacket(c) ==
  LencStr(<<100, 101, 102>>) \o LencStr(<<115>>) \o LencStr(<<116>>) \o LencStr(<<116>>)
    \o LencStr(<<c>>) \o LencStr(<<c>>) \o <<12, 33, 0, 255, 0, 0, 0, 253, 0, 0, 0, 0, 0>>

RECURSIVE RowPacket(_)
RowPacket(values) ==
  IF values = <<>> THEN <<>>
  ELSE (IF Head(values).kind = "Null" THEN <<251>>
        ELSE IF Head(values).kind = "Wide"
          THEN <<254>> \o PutUintLe(Len(Head(values).bytes), 8) \o Head(values).bytes
        ELSE LencStr(Head(values).bytes)) \o RowPacket(Tail(values))

-----------------------------------------------------------------------------
(* The peer *)

\* the peer sends one whole frame
PeerSend(f, nextSeq) ==
  /\ ~peerClosed
  /\ wire' = Append(wire, f)
  /\ wireLen' = wireLen + FrameSize(f)
  /\ srvSeq' = nextSeq
  /\ UNCHANGED peerClosed

\* the peer sends the first c bytes of a frame and the connection is torn down
PeerReset(f, c) ==
  /\ ~peerClosed
  /\ c >= 1 /\ c < FrameSize(f)
  /\ wire' = Append(wire, f)
  /\ wireLen' = wireLen + c
  /\ peerClosed' = TRUE
  /\ UNCHANGED srvSeq

\* the peer closes after a whole frame
PeerClose ==
  /\ ~peerClosed
  /\ peerClosed' = TRUE
  /\ UNCHANGED <<wire, wireLen, srvSeq>>

-----------------------------------------------------------------------------
(* Connection::read_packet and Connection::read_payload *)

\* the stream offsets a socket read may end at: within slack bytes of a frame boundary
\* or of the end of what the peer transmitted
ReadPoints(slack) ==
  LET marks == {FrameStart(wire, i) : i \in 0..Len(wire)} \cup {wireLen}
  IN {p \in {x[1] + x[2] : x \in marks \X (-slack..slack)} : buffer.hi < p /\ p <= wireLen}

\* read_packet: stream.read_buf returns n = p - buffer.hi > 0 bytes, and the loop goes on
SocketRead(p) ==
  /\ pc = "read"
  /\ ~PacketCheck(buffer)
  /\ buffer.hi < p /\ p <= wireLen
  /\ buffer' = [buffer EXCEPT !.hi = p]
  /\ UNCHANGED <<peerVars, writeVars, connVars, handshakeVars, streamVars, resVars, sequence_id, pc, cont, ret, nRead>>

\* read_packet: stream.read_buf returns 0; the error goes up to the caller of the operation
SocketEof ==
  /\ pc = "read"
  /\ ~PacketCheck(buffer)
  /\ peerClosed /\ buffer.hi = wireLen
  /\ ret' = Err(ZeroReadError(buffer))
  /\ pc' = "idle"
  /\ UNCHANGED <<peerVars, readVars, writeVars, connVars, handshakeVars, streamVars, resVars, sequence_id, cont>>

\* read_payload, from the packet and the outcome of check_sequence_id
Checked(pkt, chk) ==
  [ok |-> chk.ok,
   from |-> pkt.from,
   len |-> pkt.len,
   buffer |-> [buffer EXCEPT !.lo = @ + pkt.position],
   sequence_id |-> chk.next]

\* read_payload, from the packet read_packet returned
PayloadOf(pkt) == Checked(pkt, CheckSequenceId(sequence_id, pkt.sequence_id))

\* Connection::read_payload once the buffer holds a frame: what it returns, and the
\* connection's buffer and sequence id after it
ReadPayload == PayloadOf(PacketParse(buffer))

\* Packet::as_payload: the bytes of the payload read_payload returned
PayloadBytes(r) == [j \in 1..r.len |-> ByteAt(wire, r.from + j - 1)]

\* read_payload returns r to the reader k of a reply: the packet leaves the buffer
Received(k, r) ==
  /\ pc = "read" /\ cont = k
  /\ PacketCheck(buffer)
  /\ buffer' = r.buffer
  /\ sequence_id' = r.sequence_id
  /\ nRead' = nRead + 1

\* the ? after read_payload: the operation returns the error
OutOfSync ==
  /\ ret' = Err("PacketOutOfSync")
  /\ pc' = "idle"

\* a panic, todo!() or failed assertion ends the task
Panicked ==
  /\ pc' = "panicked"
  /\ UNCHANGED ret

\* a caller that only wants the payload: read_payload returns r to it
RawReadOn(r) ==
  /\ Received("raw", r)
  /\ ret' = IF r.ok THEN Payload(r.from, r.len) ELSE Err("PacketOutOfSync")
  /\ pc' = "idle"
  /\ UNCHANGED <<peerVars, writeVars, connVars, handshakeVars, streamVars, resVars, cont>>

RawRead == RawReadOn(ReadPayload)

\* the caller asks for the next payload
CallReadPayload ==
  /\ pc = "idle" /\ cont = "raw"
  /\ pc' = "read"
  /\ UNCHANGED <<peerVars, readVars, writeVars, connVars, handshakeVars, streamVars, resVars, sequence_id, cont, ret>>

-----------------------------------------------------------------------------
(* The readers of a reply: each action is one read_payload returning and    *)
(* the code that follows it up to the next read_payload or the return.  For *)
(* a reader X, XOn takes what read_payload returned and XWith the response  *)
(* the classifier made of it.                                               *)

ReadOkWith(ok) ==
  IF ok.st # "ok" THEN Panicked /\ UNCHANGED okState
  ELSE okState' = HandleOk(ok) /\ ret' = Ok /\ pc' = "idle"

ReadOkOn(r) ==
  /\ Received("read_ok", r)
  /\ IF ~r.ok THEN OutOfSync /\ UNCHANGED okState
     ELSE ReadOkWith(AsServerOk(PayloadBytes(r), capabilities))
  /\ UNCHANGED <<peerVars, writeVars, opts, capabilities, advertised, handshakeVars, streamVars, resVars, cont>>

\* Connection::read_ok
ReadOk == ReadOkOn(ReadPayload)

\* handle_server_error panics
ReadGenericResponseWith(generic_response) ==
  IF generic_response.kind = "ServerOk"
    THEN okState' = HandleOk(generic_response.ok) /\ ret' = Ok /\ pc' = "idle"
  ELSE IF generic_response.kind = "other"
    THEN ret' = Err("Io") /\ pc' = "idle" /\ UNCHANGED okState
  ELSE Panicked /\ UNCHANGED okState

ReadGenericResponseOn(r) ==
  /\ Received("read_generic_reponse", r)
  /\ IF ~r.ok THEN OutOfSync /\ UNCHANGED okState
     ELSE ReadGenericResponseWith(AsGenericResponse(PayloadBytes(r), capabilities))
  /\ UNCHANGED <<peerVars, writeVars, opts, capabilities, advertised, handshakeVars, streamVars, resVars, cont>>

\* Connection::read_generic_reponse
ReadGenericResponse == ReadGenericResponseOn(ReadPayload)

\* handle_server_error panics, and so does the todo!() of LocalInfile
ReadResultsWith(query_response) ==
  IF query_response.kind = "Success"
    THEN /\ okState' = HandleOk(query_response.ok)
         /\ column_count' = 0 /\ columns' = <<>> /\ rows' = <<>>
         /\ ret' = Ok /\ pc' = "idle"
         /\ UNCHANGED cont
  ELSE IF query_response.kind = "ResultSet"
    THEN /\ column_count' = query_response.column_count
         /\ columns' = <<>> /\ rows' = <<>>
         /\ cont' = IF query_response.column_count > 0 THEN "read_columns" ELSE "read_rows"
         /\ UNCHANGED <<okState, pc, ret>>
  ELSE Panicked /\ UNCHANGED <<okState, resVars, cont>>

ReadResultsOn(r) ==
  /\ Received("read_results", r)
  /\ IF ~r.ok THEN OutOfSync /\ UNCHANGED <<okState, resVars, cont>>
     ELSE ReadResultsWith(AsQueryResponse(PayloadBytes(r), capabilities))
  /\ UNCHANGED <<peerVars, writeVars, opts, capabilities, advertised, handshakeVars, streamVars>>

\* Connection::read_results up to the first read_payload of read_columns or read_rows
ReadResults == ReadResultsOn(ReadPayload)

ReadColumnsWith(column_definition_response) ==
  IF column_definition_response.kind = "Success"
    THEN /\ okState' = HandleOk(column_definition_response.ok)
         /\ cont' = "read_rows"
         /\ UNCHANGED <<columns, pc, ret>>
  ELSE IF column_definition_response.kind = "ColumnDefinition"
    THEN /\ columns' = Append(columns, column_definition_response.column)
         /\ cont' = IF Len(columns) + 1 < column_count THEN "read_columns" ELSE "read_rows"
         /\ UNCHANGED <<okState, pc, ret>>
  ELSE Panicked /\ UNCHANGED <<okState, columns, cont>>

ReadColumnsOn(r) ==
  /\ Received("read_columns", r)
  /\ IF ~r.ok THEN OutOfSync /\ UNCHANGED <<okState, columns, cont>>
     ELSE ReadColumnsWith(AsColumnDefinitionResponse(PayloadBytes(r), capabilities))
  /\ UNCHANGED <<peerVars, writeVars, opts, capabilities, advertised, handshakeVars, streamVars, column_count, rows>>

\* Connection::read_columns: one turn of its loop
ReadColumns == ReadColumnsOn(ReadPayload)

ReadRowsWith(row_response) ==
  IF row_response.kind = "Success"
    THEN /\ okState' = HandleOk(row_response.ok)
         /\ ret' = Ok /\ pc' = "idle"
         /\ UNCHANGED rows
  ELSE IF row_response.kind = "Row"
    THEN /\ rows' = Append(rows, row_response.row)
         /\ UNCHANGED <<okState, pc, ret>>
  ELSE Panicked /\ UNCHANGED <<okState, rows>>

ReadRowsOn(r) ==
  /\ Received("read_rows", r)
  /\ IF ~r.ok THEN OutOfSync /\ UNCHANGED <<okState, rows>>
     ELSE ReadRowsWith(AsRowResponse(PayloadBytes(r), capabilities, columns))
  /\ UNCHANGED <<peerVars, writeVars, opts, capabilities, advertised, handshakeVars, streamVars, column_count, columns, cont>>

\* Connection::read_rows: one turn of its loop, and the return of read_results after it
ReadRows == ReadRowsOn(ReadPayload)

-----------------------------------------------------------------------------
(* Connection::write_command and Connection::write_payload *)

\* A usize that may exceed 32 bits, as hi * MAX_PAYLOAD_LEN + lo with lo < MAX_PAYLOAD_LEN
Size(n) == [hi |-> n \div MAX_PAYLOAD_LEN, lo |-> n % MAX_PAYLOAD_LEN]

\* a + n, for n of at most MAX_PAYLOAD_LEN
Plus(a, n) == [hi |-> a.hi + (a.lo + n) \div MAX_PAYLOAD_LEN, lo |-> (a.lo + n) % MAX_PAYLOAD_LEN]

\* a < b
Less(a, b) == a.hi < b.hi \/ (a.hi = b.hi /\ a.lo < b.lo)

\* min(cap, a - b), for b <= a and cap of at most MAX_PAYLOAD_LEN
MinOfDifference(cap, a, b) ==
  IF a.hi - b.hi >= 2 THEN cap ELSE Min(cap, (a.hi - b.hi) * MAX_PAYLOAD_LEN + a.lo - b.lo)

\* write_command up to the loop of write_payload: n is the length of the command's
\* payload, k what the operation does once the command is written.  The packets the
\* connection has consumed so far leave the model's record of the stream, and the
\* result the last query returned is its caller's.
WriteCommand(cmd, n, k) ==
  /\ pc = "idle"
  /\ sequence_id' = 0
  /\ last_command_id' = cmd
  /\ wLen' = Plus(n, 1)
  /\ wOff' = Size(0)
  /\ out' = <<>>
  /\ nCmds' = nCmds + 1
  /\ pc' = "write"
  /\ cont' = k
  /\ ret' = NoRet
  /\ LET base == FrameStart(wire, nRead)
     IN /\ wire' = SubSeq(wire, nRead + 1, Len(wire))
        /\ wireLen' = wireLen - base
        /\ buffer' = [lo |-> buffer.lo - base, hi |-> buffer.hi - base]
  /\ nRead' = 0
  /\ column_count' = 0 /\ columns' = <<>> /\ rows' = <<>>
  /\ UNCHANGED <<peerClosed, srvSeq, srv, socketShort, connVars, handshakeVars>>

\* payload.chunks(MAX_PAYLOAD_LEN): the length of the chunk at offset off
ChunkLen(len, off) == MinOfDifference(MAX_PAYLOAD_LEN, len, off)

\* one turn of the loop of write_payload: the frame is built, the sequence id moves on,
\* stream.write takes the frame (whole, or only a part of it when full is FALSE); after
\* the last chunk write_payload returns.  The server has the command once frames that
\* arrived whole end with one shorter than MAX_PAYLOAD_LEN.
WriteFrame(full) ==
  /\ pc = "write"
  /\ Less(wOff, wLen)
  /\ LET chunk == ChunkLen(wLen, wOff)
         arrived == full /\ ~socketShort /\ chunk < MAX_PAYLOAD_LEN
     IN /\ out' = Append(out, [seq |-> sequence_id, len |-> chunk, off |-> wOff])
        /\ wOff' = Plus(wOff, chunk)
        /\ IF Less(Plus(wOff, chunk), wLen)
             THEN UNCHANGED <<pc, ret, srv>>
             ELSE /\ IF cont = "return"
                       THEN pc' = "idle" /\ ret' = Ok
                       ELSE pc' = "read" /\ UNCHANGED ret
                  /\ srv' = IF arrived
                              THEN [srv EXCEPT !.inbox = Append(@, [cmd |-> last_command_id, seq |-> sequence_id])]
                              ELSE srv
  /\ sequence_id' = WrappingAdd1(sequence_id)
  /\ socketShort' = (socketShort \/ ~full)
  /\ UNCHANGED <<netVars, readVars, wLen, last_command_id, nCmds, cont, connVars, handshakeVars, streamVars, resVars>>

\* stream.write fails: the frame was built and counted, the error goes up
WriteFail ==
  /\ pc = "write"
  /\ Less(wOff, wLen)
  /\ sequence_id' = WrappingAdd1(sequence_id)
  /\ ret' = Err("Io")
  /\ pc' = "idle"
  /\ UNCHANGED <<peerVars, readVars, writeVars, cont, connVars, handshakeVars, streamVars, resVars>>

\* Connection::query with a text of n bytes
Query(n) == WriteCommand(COM_QUERY, n, "read_results")

\* a ping that carries one byte after the command byte
PingWithPayload == WriteCommand(COM_PING, Size(1), "read_ok")

\* Connection::ping
Ping == WriteCommand(COM_PING, Size(0), "read_ok")

\* Connection::register_as_replica with a hostname, user and password of n bytes in all
RegisterAsReplica(n) ==
  WriteCommand(COM_REGISTER_SLAVE, Size(4 + 1 + 1 + 1 + n + 2 + 4 + 4), "read_generic_reponse")

\* Connection::dump_binlog with a file name of n bytes: it returns once the command is
\* written
DumpBinlog(n) == WriteCommand(COM_BINLOG_DUMP, Size(4 + 2 + 4 + n), "return")

-----------------------------------------------------------------------------
(* The server: it takes the commands in the order they were written and     *)
(* answers each with the packets of one reply, numbered from the id after   *)
(* that of the last frame of the command.                                   *)

\* default_capabilities, were CLIENT_CONNECT_WITH_DB inserted whatever the options
DefaultCapabilitiesWithDb(o) ==
  {CLIENT_PROTOCOL_41, CLIENT_SECURE_CONNECTION, CLIENT_LONG_PASSWORD, CLIENT_PLUGIN_AUTH,
   CLIENT_LONG_FLAG, CLIENT_DEPRECATE_EOF, CLIENT_CONNECT_WITH_DB}
    \cup (IF o.compression_enabled THEN {CLIENT_COMPRESS} ELSE {})
    \cup (IF o.ssl_enabled THEN {CLIENT_SSL} ELSE {})

\* default_capabilities; compression_enabled() and ssl_enabled() are always false
DefaultCapabilities(o) ==
  {CLIENT_PROTOCOL_41, CLIENT_SECURE_CONNECTION, CLIENT_LONG_PASSWORD, CLIENT_PLUGIN_AUTH,
   CLIENT_LONG_FLAG, CLIENT_DEPRECATE_EOF}
    \cup (IF o.compression_enabled THEN {CLIENT_COMPRESS} ELSE {})
    \cup (IF o.has_db_name THEN {CLIENT_CONNECT_WITH_DB} ELSE {})
    \cup (IF o.ssl_enabled THEN {CLIENT_SSL} ELSE {})

\* ConnectionOptions, as default_capabilities reads them
Options(has_db_name) == [has_db_name |-> has_db_name, compression_enabled |-> FALSE, ssl_enabled |-> FALSE]

\* what a server advertises: every flag of bits 0..24, or all of them but CLIENT_DEPRECATE_EOF
ServerCapabilities == {2^i : i \in 0..24}
Advertised == {ServerCapabilities, ServerCapabilities \ {CLIENT_DEPRECATE_EOF}}

InitSrv == [phase |-> "wait", n |-> 0, left |-> 0, sent |-> 0, inbox |-> <<>>]

ServerFrame(seq, bytes) == [seq |-> seq, len |-> Len(bytes), bytes |-> bytes]

clientVars == <<readVars, writeVars, connVars, handshakeVars, resVars, streamVars, sequence_id, pc, cont, ret>>

\* the server takes the next command and sends the first packet of its reply
ServerAnswer(first, phase, n) ==
  /\ srv.phase = "wait" /\ srv.inbox # <<>>
  /\ LET seq == (Head(srv.inbox).seq + 1) % U8
     IN PeerSend(ServerFrame(seq, first), (seq + 1) % U8)
  /\ srv' = [phase |-> phase, n |-> n, left |-> n, sent |-> 0, inbox |-> Tail(srv.inbox)]
  /\ UNCHANGED clientVars

\* the server sends one more packet of the reply and moves to phase
ServerSend(bytes, phase) ==
  /\ PeerSend(ServerFrame(srvSeq, bytes), WrappingAdd1(srvSeq))
  /\ srv' = [srv EXCEPT !.phase = phase,
                        !.left = IF srv.phase = "cols" THEN @ - 1 ELSE @,
                        !.sent = IF srv.phase = "rows" /\ phase = "rows" THEN @ + 1 ELSE @]
  /\ UNCHANGED clientVars

ServerOkReply == ServerAnswer(OkPacket(0), "wait", 0)

ServerErrReply == ServerAnswer(ErrPacket, "wait", 0)

\* a server that answers with OK under a sequence id one too high
ServerOkOutOfSync ==
  /\ srv.phase = "wait" /\ srv.inbox # <<>>
  /\ PeerSend(ServerFrame((Head(srv.inbox).seq + 2) % U8, OkPacket(0)),
              (Head(srv.inbox).seq + 3) % U8)
  /\ srv' = [srv EXCEPT !.inbox = Tail(@)]
  /\ UNCHANGED clientVars

ServerLocalInfile ==
  /\ srv.inbox # <<>> /\ Head(srv.inbox).cmd = COM_QUERY
  /\ ServerAnswer(LocalInfilePacket, "wait", 0)

\* a result set of n columns: the column count first
ServerResultSet ==
  /\ srv.inbox # <<>> /\ Head(srv.inbox).cmd = COM_QUERY
  /\ \E n \in 1..MaxCols : ServerAnswer(<<n>>, "cols", n)

\* the columns are named a, b, ...; after the last one come the rows, or first an EOF
\* packet when CLIENT_DEPRECATE_EOF was not negotiated
ServerSendColumn ==
  /\ srv.phase = "cols"
  /\ ServerSend(ColumnDefinitionPacket(97 + srv.n - srv.left),
                IF srv.left > 1 THEN "cols"
                ELSE IF CLIENT_DEPRECATE_EOF \in capabilities THEN "rows" ELSE "eof")

ServerSendEof ==
  /\ srv.phase = "eof"
  /\ ServerSend(EofPacket, "rows")

Null == [kind |-> "Null", bytes |-> <<>>]
Bytes(b) == [kind |-> "Bytes", bytes |-> b]
\* a value the server sends with the length prefix of 8 bytes (0xFE)
Wide(b) == [kind |-> "Wide", bytes |-> b]

\* the rows a server sends for n columns: the first value is NULL, "", "hello" or
\* "hello" after a length prefix of 8 bytes, the others are "hello"
Rows(n) ==
  {[i \in 1..n |-> IF i = 1 THEN v ELSE Bytes(<<104, 101, 108, 108, 111>>)] :
     v \in {Null, Bytes(<<>>), Bytes(<<104, 101, 108, 108, 111>>),
            Wide(<<104, 101, 108, 108, 111>>)}}

ServerSendRow ==
  /\ srv.phase = "rows" /\ srv.sent < MaxRows
  /\ \E row \in Rows(srv.n) : ServerSend(RowPacket(row), "rows")

\* the result set ends with an OK packet of header 0xFE, or with an EOF packet
ServerSendEnd ==
  /\ srv.phase = "rows"
  /\ ServerSend(IF CLIENT_DEPRECATE_EOF \in capabilities THEN OkPacket(254) ELSE EofPacket, "wait")

\* a socket read that ends at the end of a frame
SocketReadFrames == \E p \in ReadPoints(0) : SocketRead(p)

-----------------------------------------------------------------------------
(* The connection phase: the greeting, the handshake response and the reply *)
(* that ends the authentication.  connect unwraps the result of handshake,  *)
(* so an error of the handshake ends the task as a panic does.  The options *)
(* carry no password: scramble_password yields None.                        *)

\* "mysql_native_password" and "caching_sha2_password"
MYSQL_NATIVE_PASSWORD_PLUGIN_NAME ==
  <<109, 121, 115, 113, 108, 95, 110, 97, 116, 105, 118, 101, 95, 112, 97, 115, 115, 119, 111, 114, 100>>
CACHING_SHA2_PASSWORD_PLUGIN_NAME ==
  <<99, 97, 99, 104, 105, 110, 103, 95, 115, 104, 97, 50, 95, 112, 97, 115, 115, 119, 111, 114, 100>>

Max(a, b) == IF a >= b THEN a ELSE b

\* scramble_len as i8
AsI8(v) == IF v >= 128 THEN v - 256 ELSE v

\* an i8 result without overflow checks: the value wraps into -128..127
WrapI8(v) == ((v + 128) % 256) - 128

\* `scramble_len as i8 - 9` leaves i8, for a scramble_len of 128..136
Scramble2LenOverflows(scramble_len) == AsI8(scramble_len) - 9 < -128

\* Handshake::parse: the length of scramble_2, max(12, scramble_len as i8 - 9) as usize.
\* This is the build without overflow checks (release), where the subtraction wraps.
Scramble2Len(scramble_len) == Max(12, WrapI8(AsI8(scramble_len) - 9))

NoHandshake ==
  [st |-> "panic", protocol_version |-> 0, capabilities |-> {}, status_flags |-> {},
   character_set |-> 0, auth_plugin_name |-> <<>>, scramble_1 |-> <<>>, scramble_2 |-> <<>>]

\* Handshake::parse: its reads up to the filler
HandshakeFields ==
  <<Uint(1), SplitToNull, Advance(1), Uint(4), SplitTo(8), Advance(1), Uint(2), Uint(1), Uint(2),
    Uint(2), Uint(1), Advance(10)>>

\* Handshake::parse: its reads after the filler
HandshakeMoreFields(caps, scramble_len) ==
  (IF CLIENT_SECURE_CONNECTION \in caps THEN <<SplitTo(Scramble2Len(scramble_len)), Advance(1)>> ELSE <<>>)
    \o (IF CLIENT_PLUGIN_AUTH \in caps THEN <<NullTerminatedString>> ELSE <<>>)

\* Handshake::parse once all is read; auth_plugin_name() is "" when the greeting has none
HandshakeOf(r, caps, more) ==
  IF more.st # "ok" THEN NoHandshake
  ELSE [st |-> "ok",
        protocol_version |-> r.v[1],
        capabilities |-> caps,
        status_flags |-> FromBitsTruncate(StatusFlags, r.v[9]),
        character_set |-> r.v[8],
        auth_plugin_name |-> IF CLIENT_PLUGIN_AUTH \in caps THEN more.v[Len(more.v)] ELSE <<>>,
        scramble_1 |-> r.v[5],
        scramble_2 |-> IF CLIENT_SECURE_CONNECTION \in caps THEN more.v[1] ELSE <<>>]

HandshakeWithCapabilities(r, caps) == HandshakeOf(r, caps, GetFields(r.b, HandshakeMoreFields(caps, r.v[11])))

\* capabilities_1 as u32 | (capabilities_2 as u32) << 16; From<u8> for CharacterSet
\* panics on an id it does not know
HandshakeAfter(r) ==
  IF r.st # "ok" THEN NoHandshake
  ELSE IF r.v[8] \notin CharacterSetIds THEN NoHandshake
  ELSE HandshakeWithCapabilities(r, FromBitsTruncate(CapabilityFlags, r.v[7] + 65536 * r.v[10]))

HandshakeParse(payload) == HandshakeAfter(GetFields(payload, HandshakeFields))

\* Handshake::parse in a build with overflow checks (debug): the subtraction panics with
\* "attempt to subtract with overflow" where it leaves i8
HandshakeCheckedAfter(r) ==
  IF /\ r.st = "ok"
     /\ CLIENT_SECURE_CONNECTION \in FromBitsTruncate(CapabilityFlags, r.v[7] + 65536 * r.v[10])
     /\ Scramble2LenOverflows(r.v[11])
    THEN NoHandshake
    ELSE HandshakeAfter(r)

HandshakeParseChecked(payload) == HandshakeCheckedAfter(GetFields(payload, HandshakeFields))

\* what Handshake::parse gives for a greeting, over the builds of the crate
HandshakeParseBuilds(payload) == {HandshakeParse(payload), HandshakeParseChecked(payload)}

\* Handshake::nonce: scramble_1, and scramble_2 after it when there is one
Nonce(handshake) == handshake.scramble_1 \o handshake.scramble_2

HandshakeResponse(kind, p) == [kind |-> IF p.st = "ok" THEN kind ELSE "panic", handshake |-> p]

\* Payload::as_handshake_response; payload[0] of an empty payload is out of bounds
AsHandshakeResponse(payload, caps) ==
  IF payload = <<>> THEN HandshakeResponse("panic", NoHandshake)
  ELSE IF payload[1] = 255
    THEN [kind |-> IF ServerErrorParse(payload, caps) = "ok" THEN "Failure" ELSE "panic", handshake |-> NoHandshake]
  ELSE HandshakeResponse("Success", HandshakeParse(payload))

\* Payload::as_auth_response: 0x00 is Success, 0xFF Failure, the rest is todo!()
AsAuthResponse(payload, caps) ==
  IF payload = <<>> THEN Response("panic")
  ELSE IF payload[1] = 255 THEN ErrResponse("Failure", ServerErrorParse(payload, caps))
  ELSE IF payload[1] = 0 THEN OkResponse("Success", ServerOkParse(payload, caps))
  ELSE Response("panic")

\* ConnectionOptions::default() has the user "root"; a configured db name is "db"
User == <<114, 111, 111, 116>>
DbName == <<100, 98>>
Zeros(n) == [i \in 1..n |-> 0]

\* write_handshake_response: the payload.  16777216 is max_packet_size, 33 is
\* default_character_set() (UTF8); scrambled_data is None
HandshakeResponsePacket(caps, o, plugin) ==
  PutUintLe(Bits(caps), 4) \o PutUintLe(16777216, 4) \o <<33>> \o Zeros(23)
    \o User \o <<0>>
    \o <<0>>
    \o (IF o.has_db_name THEN DbName \o <<0>> ELSE <<>>)
    \o plugin \o <<0>>

\* a greeting, as Handshake::parse reads it: server version "8", connection id 7,
\* character set 33, status SERVER_STATUS_AUTOCOMMIT, scramble_len 21
GreetingOf(protocol_version, caps, plugin, scramble_len, scramble_2) ==
  <<protocol_version, 56, 0>> \o PutUintLe(7, 4) \o <<1, 2, 3, 4, 5, 6, 7, 8>> \o <<0>>
    \o PutUintLe(Bits(caps) % 65536, 2) \o <<33>> \o PutUintLe(2, 2)
    \o PutUintLe(Bits(caps) \div 65536, 2) \o <<scramble_len>> \o Zeros(10)
    \o (IF CLIENT_SECURE_CONNECTION \in caps THEN scramble_2 \o <<0>> ELSE <<>>)
    \o (IF CLIENT_PLUGIN_AUTH \in caps THEN plugin \o <<0>> ELSE <<>>)

GreetingPacket(protocol_version, caps, plugin) ==
  GreetingOf(protocol_version, caps, plugin, 21, <<9, 10, 11, 12, 13, 14, 15, 16, 17, 18, 19, 20>>)

\* the server greets with what it advertises, or refuses the client
ServerGreeting ==
  /\ srv.phase = "greeting"
  /\ \E protocol_version \in {9, 10} :
       \E plugin \in {MYSQL_NATIVE_PASSWORD_PLUGIN_NAME, CACHING_SHA2_PASSWORD_PLUGIN_NAME} :
         PeerSend(ServerFrame(srvSeq, GreetingPacket(protocol_version, advertised, plugin)), (srvSeq + 1) % U8)
  /\ srv' = [srv EXCEPT !.phase = "auth"]
  /\ UNCHANGED clientVars

ServerRefuse ==
  /\ srv.phase = "greeting"
  /\ PeerSend(ServerFrame(srvSeq, ErrPacket), (srvSeq + 1) % U8)
  /\ srv' = [srv EXCEPT !.phase = "wait"]
  /\ UNCHANGED clientVars

\* the server answers the handshake response: OK, ERR, an auth switch request or more
\* auth data
ServerAuthReply ==
  /\ srv.phase = "auth" /\ srv.inbox # <<>>
  /\ \E first \in {OkPacket(0), ErrPacket, <<254>> \o MYSQL_NATIVE_PASSWORD_PLUGIN_NAME \o <<0>>, <<1, 4>>} :
       PeerSend(ServerFrame((Head(srv.inbox).seq + 1) % U8, first), (Head(srv.inbox).seq + 2) % U8)
  /\ srv' = [srv EXCEPT !.phase = "wait", !.inbox = Tail(@)]
  /\ UNCHANGED clientVars

\* write_handshake_response, up to the loop of write_payload
WriteHandshakeResponse(payload) ==
  /\ handshake_response' = payload
  /\ wLen' = Size(Len(payload))
  /\ wOff' = Size(0)
  /\ out' = <<>>
  /\ pc' = "write"
  /\ cont' = "authenticate"
  /\ UNCHANGED ret

\* Connection::handshake after as_handshake_response, and handle_handshake up to the
\* write of the response; handle_server_error panics
HandshakeWith(p) ==
  IF \/ p.kind # "Success"
     \/ p.handshake.protocol_version # 10
     \/ CLIENT_PROTOCOL_41 \notin p.handshake.capabilities
     \/ opts.ssl_enabled
    THEN Panicked /\ UNCHANGED <<capabilities, okState, handshakeVars, streamVars, wLen, wOff, out, cont>>
  ELSE /\ capabilities' = p.handshake.capabilities \cap DefaultCapabilities(opts)
       /\ okState' = [okState EXCEPT !.status_flags = p.handshake.status_flags]
       /\ auth_plugin_name' = p.handshake.auth_plugin_name
       /\ WriteHandshakeResponse(
            HandshakeResponsePacket(p.handshake.capabilities \cap DefaultCapabilities(opts), opts,
                                    p.handshake.auth_plugin_name))

HandshakeOn(r) ==
  /\ Received("handshake", r)
  /\ IF ~r.ok THEN Panicked /\ UNCHANGED <<capabilities, okState, handshakeVars, streamVars, wLen, wOff, out, cont>>
     ELSE HandshakeWith(AsHandshakeResponse(PayloadBytes(r), capabilities))
  /\ UNCHANGED <<peerVars, socketShort, last_command_id, nCmds, opts, advertised, resVars, streamVars>>

\* Connection::handshake, from the greeting to the write of the response
Handshake == HandshakeOn(ReadPayload)

\* Connection::authenticate after as_auth_response, and the end of handle_handshake
AuthenticateWith(auth_response) ==
  IF /\ auth_response.kind = "Success"
     /\ auth_plugin_name = MYSQL_NATIVE_PASSWORD_PLUGIN_NAME
     /\ CLIENT_COMPRESS \notin capabilities
    THEN okState' = HandleOk(auth_response.ok) /\ ret' = Ok /\ pc' = "idle" /\ cont' = "none"
    ELSE Panicked /\ UNCHANGED <<okState, cont>>

AuthenticateOn(r) ==
  /\ Received("authenticate", r)
  /\ IF ~r.ok THEN Panicked /\ UNCHANGED <<okState, cont>>
     ELSE AuthenticateWith(AsAuthResponse(PayloadBytes(r), capabilities))
  /\ UNCHANGED <<peerVars, writeVars, opts, capabilities, advertised, handshakeVars, streamVars, resVars>>

\* Connection::authenticate
Authenticate == AuthenticateOn(ReadPayload)

\* the connection as Connection::connect returns it from a server that advertised adv:
\* the greeting had id 0, the handshake response 1, the OK that ended the
\* authentication 2
InitConnected(adv, o) ==
  /\ wire = <<>> /\ wireLen = 0 /\ peerClosed = FALSE /\ srvSeq = 3
  /\ srv = InitSrv
  /\ buffer = [lo |-> 0, hi |-> 0]
  /\ sequence_id = 3
  /\ last_command_id = 0
  /\ pc = "idle" /\ cont = "none" /\ ret = NoRet
  /\ wLen = Size(0) /\ wOff = Size(0) /\ out = <<>> /\ socketShort = FALSE
  /\ nRead = 0 /\ nCmds = 0
  /\ opts = o
  /\ advertised = adv
  /\ capabilities = adv \cap DefaultCapabilities(o)
  /\ okState = HandleOk(ServerOkParse(OkPacket(0), adv \cap DefaultCapabilities(o)))
  /\ auth_plugin_name = MYSQL_NATIVE_PASSWORD_PLUGIN_NAME
  /\ handshake_response =
       HandshakeResponsePacket(adv \cap DefaultCapabilities(o), o, MYSQL_NATIVE_PASSWORD_PLUGIN_NAME)
  /\ column_count = 0 /\ columns = <<>> /\ rows = <<>>
  /\ binlog = NoStream /\ items = <<>> /\ last_packet = NoPacket /\ codec = NoCodec

-----------------------------------------------------------------------------
(* SpecFrame: the framer under an arbitrary peer.  The expected sequence id  *)
(* at the start is that of the greeting (0) or of a reply to a command of 1   *)
(* or 255 frames.                                                           *)

StartIds == {0, 1, U8 - 1}
FrameLens == {0, 2, MAX_PAYLOAD_LEN}

InitFrame ==
  /\ wire = <<>> /\ wireLen = 0 /\ peerClosed = FALSE
  /\ sequence_id \in StartIds
  /\ srvSeq = sequence_id
  /\ srv = InitSrv
  /\ buffer = [lo |-> 0, hi |-> 0]
  /\ last_command_id = 0
  /\ pc = "read" /\ cont = "raw" /\ ret = NoRet
  /\ wLen = Size(0) /\ wOff = Size(0) /\ out = <<>> /\ socketShort = FALSE
  /\ nRead = 0 /\ nCmds = 0
  /\ opts = Options(FALSE)
  /\ advertised = ServerCapabilities
  /\ capabilities = ServerCapabilities \cap DefaultCapabilities(Options(FALSE))
  /\ okState = HandleOk(NoOk)
  /\ auth_plugin_name = <<>> /\ handshake_response = <<>>
  /\ column_count = 0 /\ columns = <<>> /\ rows = <<>>
  /\ binlog = NoStream /\ items = <<>> /\ last_packet = NoPacket /\ codec = NoCodec

\* the frames a peer may send next: the id it owes, or an id one too high
RawFrames == {[seq |-> s, len |-> n, bytes |-> <<>>] : s \in {srvSeq, WrappingAdd1(srvSeq)}, n \in FrameLens}

PeerSendRaw ==
  /\ Len(wire) < MaxFrames
  /\ \E f \in RawFrames :
       PeerSend(f, IF f.seq = srvSeq THEN WrappingAdd1(srvSeq) ELSE srvSeq)
  /\ UNCHANGED <<srv, clientVars>>

PeerResetRaw ==
  /\ Len(wire) < MaxFrames
  /\ \E f \in RawFrames : \E c \in {2, 4, FrameSize(f) - 1} : PeerReset(f, c)
  /\ UNCHANGED <<srv, clientVars>>

PeerCloseRaw ==
  /\ PeerClose
  /\ UNCHANGED <<srv, clientVars>>

SocketReadNear == \E p \in ReadPoints(Slack) : SocketRead(p)

NextFrame ==
  \/ PeerSendRaw
  \/ PeerResetRaw
  \/ PeerCloseRaw
  \/ SocketReadNear
  \/ SocketEof
  \/ RawRead
  \/ CallReadPayload

SpecFrame == InitFrame /\ [][NextFrame]_vars

-----------------------------------------------------------------------------
(* Properties of the framer, under SpecFrame *)

\* the frame read_payload takes next, as the peer sent it
NextFrameSent == wire[nRead + 1]

\* C1: read_payload accepts a packet exactly when its sequence id equals the expected
\* id; the expected id then becomes (id + 1) mod 256; on a mismatch the error is
\* PacketOutOfSync and the expected id stays as it was.
C1_SequenceCheck ==
  [][(pc = "read" /\ nRead' = nRead + 1) =>
       IF NextFrameSent.seq = sequence_id
         THEN ret'.kind = "payload" /\ sequence_id' = (NextFrameSent.seq + 1) % 256
         ELSE ret' = Err("PacketOutOfSync") /\ sequence_id' = sequence_id]_vars

\* a packet of id 255 was accepted and then a packet of id 0
C1_Witness ==
  /\ nRead = 2 /\ ret.kind = "payload"
  /\ wire[1].seq = 255 /\ wire[2].seq = 0
  /\ sequence_id = 1

\* C3: read_packet returns the frames in the order they arrived, whole, and takes
\* exactly 4 + length bytes from the buffer for each, however the socket reads cut the
\* stream: the buffer starts at the frame after the last one returned, the bytes left
\* in it stay there, and a payload returned is that of the last frame taken.
C3_FramesInOrder ==
  /\ nRead <= Len(wire)
  /\ buffer.lo = FrameStart(wire, nRead)
  /\ buffer.lo <= buffer.hi /\ buffer.hi <= wireLen
  /\ ret.kind = "payload" =>
       /\ nRead >= 1
       /\ ret.from = FrameStart(wire, nRead - 1) + 4
       /\ ret.len = wire[nRead].len

\* a frame was returned from a chunk that held it and the first bytes of the next one
C3_Witness ==
  /\ nRead = 1 /\ ret.kind = "payload" /\ ret.len = 2
  /\ Len(wire) = 2
  /\ Remaining(buffer) \in 1..3

\* the socket read returns 0: the peer closed, every byte it sent is in the buffer, and
\* the buffer holds no whole frame
ZeroRead ==
  /\ pc = "read"
  /\ peerClosed /\ buffer.hi = wireLen
  /\ ~(nRead < Len(wire) /\ Remaining(buffer) >= FrameSize(NextFrameSent))

\* C4: when the socket read returns 0 the operation fails with ConnectionClosed if the
\* buffer is empty and with ConnectionResetByPeer if it holds a part of a frame;
\* nothing is returned as a packet and the buffer is left as it is.
C4_ZeroRead ==
  [][ZeroRead =>
       /\ ret' = Err(IF buffer.lo = buffer.hi THEN "ConnectionClosed" ELSE "ConnectionResetByPeer")
       /\ nRead' = nRead /\ buffer' = buffer]_vars

\* a whole frame was read, then the peer went away in the middle of the second
C4_Witness ==
  /\ ret = Err("ConnectionResetByPeer")
  /\ nRead = 1 /\ Remaining(buffer) > 0

\* the frames from i on that make one logical payload: the run of frames of
\* MAX_PAYLOAD_LEN bytes and the first shorter frame after it; 0 when that frame
\* has not been sent
RECURSIVE LastOfPayload(_)
LastOfPayload(i) ==
  IF i > Len(wire) THEN 0
  ELSE IF wire[i].len < MAX_PAYLOAD_LEN THEN i
  ELSE LastOfPayload(i + 1)

RECURSIVE SumLen(_, _)
SumLen(i, j) == IF i > j THEN 0 ELSE wire[i].len + SumLen(i + 1, j)

\* C5: a frame of 2^24 - 1 payload bytes is continued by the next frame: the payload
\* read_payload returns runs through the first frame shorter than that, and all the
\* frames of the run are taken.
C5_Continuation ==
  ret.kind = "payload" =>
    \E i \in 1..Len(wire) :
      /\ ret.from = FrameStart(wire, i - 1) + 4
      /\ LastOfPayload(i) = nRead
      /\ ret.len = SumLen(i, nRead)

-----------------------------------------------------------------------------
(* SpecCancel: the framer of SpecFrame under a caller that may drop the     *)
(* future of a read while it waits for the socket, and read again later.    *)

\* the result of a read that was dropped before it returned
Cancelled == [kind |-> "cancelled", err |-> "", from |-> 0, len |-> 0]

\* a read that takes what is buffered out of the buffer before it waits
CancelReadConsuming ==
  /\ pc = "read"
  /\ ~PacketCheck(buffer)
  /\ pc' = "idle"
  /\ ret' = Cancelled
  /\ buffer' = [buffer EXCEPT !.lo = buffer.hi]
  /\ UNCHANGED <<peerVars, nRead, writeVars, connVars, handshakeVars, streamVars,
                 resVars, sequence_id, cont>>

\* the future of read_payload is dropped while read_packet is suspended in
\* stream.read_buf(&mut self.buffer).await: the cursor over the buffer is a local of the
\* loop, the buffer and the sequence id are fields of the connection and stay
CancelRead ==
  /\ pc = "read"
  /\ ~PacketCheck(buffer)
  /\ pc' = "idle"
  /\ ret' = Cancelled
  /\ UNCHANGED <<peerVars, readVars, writeVars, connVars, handshakeVars, streamVars,
                 resVars, sequence_id, cont>>

NextCancel ==
  \/ PeerSendRaw
  \/ PeerResetRaw
  \/ PeerCloseRaw
  \/ SocketReadNear
  \/ SocketEof
  \/ RawRead
  \/ CallReadPayload
  \/ CancelRead

SpecCancel == InitFrame /\ [][NextCancel]_vars

\* the read that returns the next packet follows a read that was cancelled
ReadAfterCancel == pc = "read" /\ ret = Cancelled /\ nRead' = nRead + 1

\* C36: a read cancelled while read_packet waits for the socket keeps the bytes already
\* buffered, consumes nothing and leaves the expected sequence id as it is; the next
\* read returns the packet an uninterrupted run returns next: the next frame the peer
\* sent, whole, checked against the same expected id.
C36_CancelSafe ==
  [][/\ (pc = "read" /\ pc' = "idle" /\ ret' = Cancelled)
          => (buffer' = buffer /\ sequence_id' = sequence_id /\ nRead' = nRead)
     /\ ReadAfterCancel =>
          /\ buffer.lo = FrameStart(wire, nRead)
          /\ IF NextFrameSent.seq = sequence_id
               THEN /\ ret' = Payload(FrameStart(wire, nRead) + 4, NextFrameSent.len)
                    /\ sequence_id' = WrappingAdd1(sequence_id)
               ELSE ret' = Err("PacketOutOfSync") /\ sequence_id' = sequence_id]_vars

\* a read was cancelled after the first packet, the caller reads again, and the second
\* frame is whole in the buffer for that read to return
C36_Witness ==
  /\ pc = "read" /\ ret = Cancelled
  /\ nRead = 1 /\ Len(wire) = 2 /\ PacketCheck(buffer)

-----------------------------------------------------------------------------
(* SpecQuery: a connected client that runs queries, pings and registrations *)
(* against a server that answers them.                                      *)

InitQuery == \E adv \in Advertised : InitConnected(adv, Options(FALSE))

\* the caller gives the connection up once an operation has returned an error, and
\* issues at most MaxCmds commands
CallerGoesOn == ret.kind # "err" /\ nCmds < MaxCmds

QueryShort == CallerGoesOn /\ Query(Size(8)) /\ UNCHANGED streamVars

PingNext == CallerGoesOn /\ Ping /\ UNCHANGED streamVars

RegisterAsReplicaDefault == CallerGoesOn /\ RegisterAsReplica(0) /\ UNCHANGED streamVars

WriteFrameWhole == WriteFrame(TRUE)

NextQuery ==
  \/ QueryShort
  \/ PingNext
  \/ RegisterAsReplicaDefault
  \/ WriteFrameWhole
  \/ ServerOkReply
  \/ ServerErrReply
  \/ ServerOkOutOfSync
  \/ ServerLocalInfile
  \/ ServerResultSet
  \/ ServerSendColumn
  \/ ServerSendEof
  \/ ServerSendRow
  \/ ServerSendEnd
  \/ SocketReadFrames
  \/ ReadOk
  \/ ReadGenericResponse
  \/ ReadResults
  \/ ReadColumns
  \/ ReadRows

SpecQuery == InitQuery /\ [][NextQuery]_vars

\* the reply being read, or just read, is a result set
InResultSet == cont \in {"read_columns", "read_rows"} /\ column_count > 0

\* C8: of the reply to a query that announces N columns, the N packets after the header
\* are taken as column definitions, in order, before any packet is taken as a row, and
\* every row kept holds N values.
C8_ColumnsBeforeRows ==
  InResultSet =>
    /\ Len(columns) <= column_count
    /\ \A i \in 1..Len(columns) : columns[i] = ColumnParse(wire[1 + i].bytes)
    /\ cont = "read_columns" => rows = <<>>
    /\ cont = "read_rows" => Len(columns) = column_count
    /\ \A j \in 1..Len(rows) : Len(rows[j]) = column_count
    /\ pc = "read" => nRead = 1 + Len(columns) + Len(rows)

\* a result set of two columns and two rows has been returned
C8_Witness ==
  /\ InResultSet /\ pc = "idle" /\ ret = Ok
  /\ column_count = 2 /\ Len(columns) = 2 /\ Len(rows) = 2

\* C9: without CLIENT_DEPRECATE_EOF, the packet after the N column definitions (the
\* EOF) is consumed and the reader goes on to read rows, none being returned yet.
C9_IntermediateEof ==
  (InResultSet /\ CLIENT_DEPRECATE_EOF \notin capabilities /\ nRead = column_count + 2) =>
    pc = "read" /\ cont = "read_rows" /\ rows = <<>>

\* C10: when a command has returned successfully the server has sent the whole of its
\* reply and the connection has consumed every packet of it.
C10_ReplyDrained ==
  (pc = "idle" /\ ret = Ok) => (srv.phase = "wait" /\ nRead = Len(wire))

\* the one packet of the reply to the command is an ERR and the reader has consumed it
ErrReplyRead ==
  /\ cont \in {"read_results", "read_generic_reponse"}
  /\ nRead = 1 /\ wire[1].bytes = ErrPacket
  /\ sequence_id = WrappingAdd1(wire[1].seq)

\* C11: when the server answers a query or a registration with an ERR packet the
\* operation returns an upstream error to its caller, the connection staying ready for
\* the next command.
C11_UpstreamError ==
  ErrReplyRead => (pc = "idle" /\ ret = Err("UpstreamError"))

\* a ping is the command under way, or the last one, and its frame has been written
PingWritten == last_command_id = COM_PING /\ pc \in {"read", "idle", "panicked"}

\* the ping is over: it has returned, or it has panicked
PingOver == last_command_id = COM_PING /\ pc \in {"idle", "panicked"}

\* C20: ping writes one frame, of length 1 and sequence id 0 with the payload 0x0E
\* (01 00 00 00 0E), then reads one packet; it succeeds exactly when that packet has
\* the sequence id 1 and is an OK packet, and then nothing of the reply is left unread.
C20_Ping ==
  /\ PingWritten => out = <<[seq |-> 0, len |-> 1, off |-> Size(0)]>>
  /\ PingOver => nRead = 1
  /\ PingOver => ((pc = "idle" /\ ret = Ok) <=> (wire[1].seq = 1 /\ wire[1].bytes[1] = 0))
  /\ (PingOver /\ ret = Ok) => (nRead = Len(wire) /\ buffer.lo = buffer.hi)

\* a ping has succeeded
C20_Witness ==
  /\ PingOver /\ pc = "idle" /\ ret = Ok
  /\ out = <<[seq |-> 0, len |-> 1, off |-> Size(0)]>>
  /\ nRead = 1 /\ wire[1].seq = 1 /\ wire[1].bytes = OkPacket(0)

\* the first packet of the reply to a query is a LOCAL_INFILE request (0xFB) and
\* read_results has consumed it
LocalInfileRead ==
  /\ cont = "read_results" /\ last_command_id = COM_QUERY
  /\ nRead = 1 /\ wire[1].bytes = LocalInfilePacket
  /\ sequence_id = WrappingAdd1(wire[1].seq)

\* C23: when the first packet of the reply to a query begins with 0xFB the query
\* returns the error Unsupported to its caller.
C23_LocalInfile ==
  LocalInfileRead => (pc = "idle" /\ ret = Err("Unsupported"))

\* read_rows takes from the buffer, in sequence, a payload that begins with 0xFE
RowsReadFE ==
  /\ pc = "read" /\ cont = "read_rows" /\ nRead' = nRead + 1
  /\ ret' # Err("PacketOutOfSync")
  /\ wire[nRead'].bytes[1] = 254

\* C33: while rows are read, a payload that begins with 0xFE ends the result set only
\* when it has fewer than 9 bytes; one of 9 bytes or more is decoded as a row, whose
\* first value has a length prefix of 8 bytes.
C33_EofLength ==
  [][RowsReadFE =>
       IF Len(wire[nRead'].bytes) < 9
         THEN pc' = "idle" /\ rows' = rows
         ELSE pc' = "read" /\ Len(rows') = Len(rows) + 1]_vars

\* a text value read at a cursor, and the cursor after it: 0xFB is NULL and takes one
\* byte, any other value takes its length prefix and its bytes
CursorValue(b) ==
  IF b # <<>> /\ b[1] = 251 THEN Done(Null, Tail(b))
  ELSE LencBytesAfter(SafeGetLencUint(b))

\* the n values of a row read left to right from one cursor, as kinds and bytes
RECURSIVE CursorRow(_, _)
CursorRow(b, n) ==
  IF n = 0 \/ CursorValue(b).st # "ok" THEN <<>>
  ELSE <<IF b[1] = 251 THEN Null ELSE Bytes(CursorValue(b).v)>> \o CursorRow(CursorValue(b).b, n - 1)

\* read_rows takes from the buffer, in sequence, a payload that is a row
RowsReadRow ==
  /\ pc = "read" /\ cont = "read_rows" /\ nRead' = nRead + 1
  /\ ret' # Err("PacketOutOfSync")
  /\ wire[nRead'].bytes[1] \notin {0, 254}

\* C34: a text row of N columns is decoded left to right from one cursor: value i comes
\* from the bytes after the encoding of value i-1, NULL taking its one byte 0xFB and any
\* other value its length prefix and its bytes.
C34_OneCursor ==
  [][RowsReadRow =>
       /\ Len(rows') = Len(rows) + 1
       /\ Len(rows'[Len(rows')]) = Len(columns)
       /\ \A i \in 1..Len(columns) :
            /\ rows'[Len(rows')][i].kind = CursorRow(wire[nRead'].bytes, Len(columns))[i].kind
            /\ rows'[Len(rows')][i].bytes = CursorRow(wire[nRead'].bytes, Len(columns))[i].bytes]_vars

-----------------------------------------------------------------------------
(* SpecWrite: a connected client that writes commands of up to 257 frames   *)
(* to a socket that may take a frame whole, take a part of it, or fail; the *)
(* server answers a command it received whole with OK.                      *)

InitWrite == InitConnected(ServerCapabilities, Options(FALSE))

\* query texts that make payloads of 1 byte, of one byte less than, exactly and one byte
\* more than one frame, of exactly 2, 255 and 256 frames, and of 256 frames and a byte
QueryLens ==
  {Size(0), Size(MAX_PAYLOAD_LEN - 2), Size(MAX_PAYLOAD_LEN - 1), Size(MAX_PAYLOAD_LEN)}
    \cup {[hi |-> h, lo |-> MAX_PAYLOAD_LEN - 1] : h \in {1, 254, 255}}
    \cup {[hi |-> 256, lo |-> 0]}

QueryLong == CallerGoesOn /\ UNCHANGED streamVars /\ \E n \in QueryLens : Query(n)

WriteFrameAny == \E full \in BOOLEAN : WriteFrame(full)

DumpBinlogNext == CallerGoesOn /\ DumpBinlog(9) /\ UNCHANGED streamVars

NextWrite ==
  \/ QueryLong
  \/ PingNext
  \/ RegisterAsReplicaDefault
  \/ DumpBinlogNext
  \/ WriteFrameAny
  \/ WriteFail
  \/ ServerOkReply
  \/ SocketReadFrames
  \/ ReadOk
  \/ ReadGenericResponse
  \/ ReadResults

SpecWrite == InitWrite /\ [][NextWrite]_vars

\* C2: write_command sets the sequence id to 0 whatever it was; the frames of the
\* command carry 0, 1, 2, ... mod 256; once k frames are written the id expected of
\* the first packet of the reply is k mod 256.
C2_CommandSequence ==
  /\ \A i \in 1..Len(out) : out[i].seq = (i - 1) % 256
  /\ pc = "write" => sequence_id = Len(out) % 256
  /\ (pc = "read" /\ nRead = 0) => sequence_id = Len(out) % 256

\* a command of 257 frames is written: the last frame carries 0 again, the reply is
\* expected with 1
C2_Witness ==
  /\ Len(out) = 257 /\ out[257].seq = 0
  /\ pc = "read" /\ nRead = 0 /\ sequence_id = 1

\* write_payload has returned after writing the whole payload
PayloadWritten == pc # "write" /\ out # <<>> /\ wOff = wLen

\* C6: the frames write_payload wrote for a payload end with a frame shorter than
\* 2^24 - 1 bytes: an empty one when the payload is a multiple of 2^24 - 1 long.
C6_Terminated == PayloadWritten => out[Len(out)].len < MAX_PAYLOAD_LEN

\* C35: write_payload delivers every byte of every frame to the socket, in order: after
\* a write call that took fewer bytes than offered, the rest of the frame is written
\* before the next frame is, and before the operation returns success.
C35_WholeFrames ==
  [][/\ (pc = "write" /\ Len(out') > Len(out)) => ~socketShort
     /\ (pc = "write" /\ pc' # "write" /\ ret' # Err("Io")) => ~socketShort']_vars

-----------------------------------------------------------------------------
(* SpecHandshake: connect against a server that advertises one of several    *)
(* capability sets, then pings.  The socket neither fails nor closes.        *)

\* what the servers of SpecHandshake advertise: all of bits 0..24; the same without
\* one of the flags the handshake reads; the least a handshake succeeds with, together
\* with bits 27 and 30
GreetingCapabilities ==
  {ServerCapabilities,
   ServerCapabilities \ {CLIENT_DEPRECATE_EOF},
   ServerCapabilities \ {CLIENT_PROTOCOL_41},
   ServerCapabilities \ {CLIENT_PLUGIN_AUTH},
   ServerCapabilities \ {CLIENT_SECURE_CONNECTION},
   {CLIENT_PROTOCOL_41, CLIENT_PLUGIN_AUTH, 2^27, 2^30}}

\* Connection::connect up to the call of handshake
InitHandshake ==
  /\ wire = <<>> /\ wireLen = 0 /\ peerClosed = FALSE /\ srvSeq = 0
  /\ srv = [InitSrv EXCEPT !.phase = "greeting"]
  /\ buffer = [lo |-> 0, hi |-> 0]
  /\ sequence_id = 0
  /\ last_command_id = 0
  /\ pc = "read" /\ cont = "handshake" /\ ret = NoRet
  /\ wLen = Size(0) /\ wOff = Size(0) /\ out = <<>> /\ socketShort = FALSE
  /\ nRead = 0 /\ nCmds = 0
  /\ opts \in {Options(FALSE), Options(TRUE)}
  /\ advertised \in GreetingCapabilities
  /\ capabilities = {}
  /\ okState = HandleOk(NoOk)
  /\ auth_plugin_name = <<>> /\ handshake_response = <<>>
  /\ column_count = 0 /\ columns = <<>> /\ rows = <<>>
  /\ binlog = NoStream /\ items = <<>> /\ last_packet = NoPacket /\ codec = NoCodec

NextHandshake ==
  \/ ServerGreeting
  \/ ServerRefuse
  \/ SocketReadFrames
  \/ Handshake
  \/ WriteFrameWhole
  \/ ServerAuthReply
  \/ Authenticate
  \/ PingNext
  \/ ServerOkReply
  \/ ReadOk

SpecHandshake == InitHandshake /\ [][NextHandshake]_vars

\* connect has returned the connection
Connected == pc # "panicked" /\ cont \notin {"handshake", "authenticate"}

\* the set the client supports
Supported ==
  {CLIENT_PROTOCOL_41, CLIENT_SECURE_CONNECTION, CLIENT_LONG_PASSWORD, CLIENT_PLUGIN_AUTH,
   CLIENT_LONG_FLAG, CLIENT_DEPRECATE_EOF}
    \cup (IF opts.has_db_name THEN {CLIENT_CONNECT_WITH_DB} ELSE {})

\* C7: once the handshake has succeeded, and from then on, the capabilities of the
\* connection are those the server advertised that the client supports; the handshake
\* response carried this very value; COMPRESS, SSL and SESSION_TRACK are never in it.
C7_Negotiated ==
  Connected =>
    /\ capabilities = advertised \cap Supported
    /\ LeValue(Take(handshake_response, 4)) = Bits(capabilities)
    /\ capabilities \cap {CLIENT_COMPRESS, CLIENT_SSL, CLIENT_SESSION_TRACK} = {}

\* a server that advertises COMPRESS, SSL and SESSION_TRACK among all of bits 0..24, a
\* client with a db name: the handshake has succeeded and a ping has been answered
C7_Witness ==
  /\ Connected /\ nCmds = 1 /\ pc = "idle" /\ ret = Ok
  /\ advertised = ServerCapabilities
  /\ CLIENT_CONNECT_WITH_DB \in capabilities

\* the reply to the handshake response has been read by authenticate: it is the second
\* packet of the connection, after the greeting
AuthReplyRead == nCmds = 0 /\ nRead = 2 /\ Len(wire) >= 2 /\ wire[2].bytes # <<>>

\* C22: the reply to the handshake response is dispatched on its first byte: OK makes
\* the connection ready, ERR fails the handshake with the server's error, and an auth
\* switch (0xFE) or more auth data (0x01) is handled by the client, which goes on.
C22_AuthDispatch ==
  AuthReplyRead =>
    /\ wire[2].bytes[1] = 0 => (pc = "idle" /\ ret = Ok)
    /\ wire[2].bytes[1] = 255 => (pc = "idle" /\ ret = Err("UpstreamError"))
    /\ wire[2].bytes[1] \in {254, 1} => pc # "panicked"

-----------------------------------------------------------------------------
(* protocol_binlog.rs: the decoders of binlog event packets.  A decoded    *)
(* value is a record whose st is "ok", or "panic" when the decoder panics; *)
(* no decoder returns Err.                                                 *)

UNKNOWN_EVENT == 0
QUERY_EVENT == 2
ROTATE_EVENT == 4
FORMAT_DESCRIPTION_EVENT == 15
XID_EVENT == 16
TABLE_MAP_EVENT == 19
WRITE_ROWS_EVENTV0 == 20
UPDATE_ROWS_EVENTV0 == 21
DELETE_ROWS_EVENTV0 == 22
WRITE_ROWS_EVENTV1 == 23
UPDATE_ROWS_EVENTV1 == 24
DELETE_ROWS_EVENTV1 == 25
WRITE_ROWS_EVENTV2 == 30
UPDATE_ROWS_EVENTV2 == 31
DELETE_ROWS_EVENTV2 == 32
GTID_EVENT == 33
ANONYMOUS_GTID_EVENT == 34
PREVIOUS_GTIDS_EVENT == 35

\* an EventType::from that keeps every tag
EventTypeFromAny(x) == x

\* EventType::from(u8): the variants are numbered as their tags, from UNKNOWN_EVENT (0)
\* to PREVIOUS_GTIDS_EVENT (0x23); the bytes above are UNKNOWN_EVENT
EventTypeFrom(x) == IF x <= PREVIOUS_GTIDS_EVENT THEN x ELSE UNKNOWN_EVENT

\* the length of the event header, which BinlogEventPacket::parse takes off event_size
EVENT_HEADER_LEN == 19

\* BinlogEventPacket::parse: the OK byte is skipped, then timestamp, event_type,
\* server_id, event_size, log_pos and flags are read; the payload is what is left.
\* event_size - 19 is computed and dropped.  This is the build without overflow checks
\* (release), where the subtraction wraps below 19 and nothing reads its result.
BinlogEventPacketAfter(r) ==
  IF r.st # "ok"
    THEN [st |-> "panic", timestamp |-> 0, server_id |-> 0, log_pos |-> 0, flags |-> 0,
          event_type |-> 0, payload |-> <<>>]
    ELSE [st |-> "ok", timestamp |-> r.v[2], server_id |-> r.v[4], log_pos |-> r.v[6],
          flags |-> r.v[7], event_type |-> EventTypeFrom(r.v[3]), payload |-> r.b]

\* the fields of the header, in the order BinlogEventPacket::parse reads them
EventHeaderFields(buf) ==
  GetFields(buf, <<Advance(1), Uint(4), Uint(1), Uint(4), Uint(4), Uint(4), Uint(2)>>)

BinlogEventPacketParse(buf) == BinlogEventPacketAfter(EventHeaderFields(buf))

\* `b.get_u32_le() - 19` in a build with overflow checks (debug): an event_size below
\* 19 panics with "attempt to subtract with overflow"
BinlogEventPacketCheckedAfter(r) ==
  IF r.st = "ok" /\ r.v[5] < EVENT_HEADER_LEN
    THEN BinlogEventPacketAfter(Fail("panic", r.b))
    ELSE BinlogEventPacketAfter(r)

BinlogEventPacketParseChecked(buf) == BinlogEventPacketCheckedAfter(EventHeaderFields(buf))

\* what BinlogEventPacket::parse gives for a packet, over the builds of the crate
BinlogEventPacketBuilds(buf) ==
  {BinlogEventPacketParse(buf), BinlogEventPacketParseChecked(buf)}

\* a decoder panicked
EventPanic == [st |-> "panic", kind |-> "none"]

\* RotateEvent::parse
RotateEventAfter(r) ==
  IF r.st # "ok" \/ ~IsUtf8(r.b) THEN EventPanic
  ELSE [st |-> "ok", kind |-> "Rotate", position |-> r.v, next_log_name |-> r.b]

\* a RotateEvent::parse that reads the position as a u32
RotateEventParseU32(buf) == RotateEventAfter(GetUintLe(buf, 4))

RotateEventParse(buf) == RotateEventAfter(GetUintLe(buf, 8))

\* FormatDescriptionEvent::parse
FormatDescriptionEventAfter(r) ==
  IF r.st # "ok" \/ ~IsUtf8(r.v[2]) THEN EventPanic
  ELSE [st |-> "ok", kind |-> "Format", version |-> r.v[1], server_version |-> r.v[2],
        create_timestamp |-> r.v[3], event_header_length |-> r.v[4],
        event_type_header_lengths |-> r.b]

FormatDescriptionEventParse(buf) ==
  FormatDescriptionEventAfter(GetFields(buf, <<Uint(2), SplitTo(50), Uint(4), Uint(1)>>))

\* FormatDescriptionEvent::server_version_str: the 50 bytes as they were read
ServerVersionStr(event) == event.server_version

\* the column types of which TableMapEvent::parse reads one byte of metadata, those of
\* which it reads none; every other type panics ("not supported")
OneByteMetaTypes == {254, 246, 253, 15, 16, 252, 5, 4, 255, 245, 19, 18, 17}
NoMetaTypes == {0, 1, 2, 3, 6, 7, 8, 9, 10, 11, 12, 13}

\* the loop of TableMapEvent::parse over the column types, reading column_meta_reader
RECURSIVE ColumnMetas(_, _)
ColumnMetas(types, reader) ==
  IF types = <<>> THEN Done(<<>>, reader)
  ELSE IF Head(types) \in OneByteMetaTypes
    THEN IF reader = <<>> THEN Fail("panic", reader)
         ELSE Cons(Head(reader), ColumnMetas(Tail(types), Tail(reader)))
  ELSE IF Head(types) \in NoMetaTypes
    THEN Cons(0, ColumnMetas(Tail(types), reader))
  ELSE Fail("panic", reader)

\* a bitmap of column_count / 8 bytes
BitmapLenFloor(cc) == cc \div 8

\* (column_count + 7) / 8
BitmapLen(cc) == (cc + 7) \div 8

\* TableMapEvent::parse from the metadata on: head holds table_id and flags, types the
\* column types, m the metadata read and the cursor after the reader
TableMapEventOf(head, schema, table, types, m) ==
  IF m.st # "ok" THEN EventPanic
  ELSE [st |-> "ok", kind |-> "TableMap", table_id |-> head.v[1], flags |-> head.v[2],
        schema |-> schema, table |-> table,
        column_count |-> Len(types), column_types |-> types, column_metas |-> m.v,
        null_bitmap |-> IF Len(m.b) = BitmapLen(Len(types)) THEN m.b ELSE <<>>]

\* the metadata: column_meta_reader is split off the cursor and read by the loop; what
\* the loop leaves in the reader is dropped, the cursor after the reader is kept
MetasAfter(reader, types) ==
  IF reader.st # "ok" THEN Fail("panic", reader.b)
  ELSE [ColumnMetas(types, reader.v) EXCEPT !.b = reader.b]

ColumnMetaReaderAfter(len) ==
  IF len.st # "ok" THEN Fail("panic", len.b) ELSE GetSplitTo(len.b, len.v)

\* b[..column_count] is read without moving the cursor, ColumnType::from panics on an
\* unknown type; the length of the metadata is then read at the first column type
TableMapEventTypes(head, schema, table, cc) ==
  IF cc.st # "ok" \/ Len(cc.b) < cc.v THEN EventPanic
  ELSE IF \E i \in 1..cc.v : cc.b[i] \notin ColumnTypeIds THEN EventPanic
  ELSE TableMapEventOf(head, schema, table, Take(cc.b, cc.v),
                       MetasAfter(ColumnMetaReaderAfter(GetLencUint(cc.b)), Take(cc.b, cc.v)))

\* the table name and the byte skipped after it, then the column count
TableMapEventTableAfter(head, schema, r) ==
  IF r.st # "ok" \/ ~IsUtf8(r.v[1]) THEN EventPanic
  ELSE TableMapEventTypes(head, schema, r.v[1], GetLencUint(r.b))

TableMapEventTable(head, schema, len) ==
  IF len.st # "ok" THEN EventPanic
  ELSE TableMapEventTableAfter(head, schema, GetFields(len.b, <<SplitTo(len.v), Advance(1)>>))

\* the schema name and the byte skipped after it, then the u8 length of the table name
TableMapEventSchemaAfter(head, r) ==
  IF r.st # "ok" \/ ~IsUtf8(r.v[1]) THEN EventPanic
  ELSE TableMapEventTable(head, r.v[1], GetU8(r.b))

TableMapEventHead(head) ==
  IF head.st # "ok" THEN EventPanic
  ELSE TableMapEventSchemaAfter(head, GetFields(head.b, <<SplitTo(head.v[3]), Advance(1)>>))

\* TableMapEvent::parse: table_id in 6 bytes, flags, the u8 length of the schema name
TableMapEventParse(buf) == TableMapEventHead(GetFields(buf, <<Uint(6), Uint(2), Uint(1)>>))

\* RowEvent::parse from the bitmaps on: rows is what is left of the buf, undecoded
RowEventOf(head, extras, cc, bitmaps) ==
  IF bitmaps.st # "ok" THEN EventPanic
  ELSE [st |-> "ok", kind |-> "Row", table_id |-> head.v[1], flags |-> head.v[2],
        extras |-> extras, column_count |-> cc,
        column_bitmap1 |-> bitmaps.v[1],
        column_bitmap2 |-> IF Len(bitmaps.v) = 2 THEN bitmaps.v[2] ELSE <<>>,
        rows |-> bitmaps.b]

\* the column count, then one bitmap of (column_count + 7) / 8 bytes, or two
RowEventColumns(head, extras, cc, use_bitmap2) ==
  IF cc.st # "ok" THEN EventPanic
  ELSE RowEventOf(head, extras, cc.v,
                  GetFields(cc.b, IF use_bitmap2
                                    THEN <<SplitTo(BitmapLen(cc.v)), SplitTo(BitmapLen(cc.v))>>
                                    ELSE <<SplitTo(BitmapLen(cc.v))>>))

RowEventExtrasAfter(head, extras, use_bitmap2) ==
  IF extras.st # "ok" THEN EventPanic
  ELSE RowEventColumns(head, extras.v, GetLencUint(extras.b), use_bitmap2)

\* extras_len - 2 bytes of extras: a length below 2 overflows, which panics at the
\* subtraction or, wrapped, at the split_to
RowEventHead(head, use_extras, use_bitmap2) ==
  IF head.st # "ok" THEN EventPanic
  ELSE IF ~use_extras THEN RowEventExtrasAfter(head, Done(<<>>, head.b), use_bitmap2)
  ELSE IF head.v[3] < 2 THEN EventPanic
  ELSE RowEventExtrasAfter(head, GetSplitTo(head.b, head.v[3] - 2), use_bitmap2)

\* RowEvent::parse: table_id in 6 bytes, flags, and the length of the extras if any
RowEventParse(buf, use_extras, use_bitmap2) ==
  RowEventHead(GetFields(buf, IF use_extras THEN <<Uint(6), Uint(2), Uint(2)>>
                                              ELSE <<Uint(6), Uint(2)>>),
               use_extras, use_bitmap2)

\* BinlogEvent::Insert, Update, Delete around a RowEvent
RowEventAs(kind, row_event) ==
  IF row_event.st # "ok" THEN EventPanic ELSE [row_event EXCEPT !.kind = kind]

\* BinlogEventPacket::into_binlog_event; any other event type is unimplemented!()
IntoBinlogEvent(packet) ==
  IF packet.st # "ok" THEN EventPanic
  ELSE CASE packet.event_type = TABLE_MAP_EVENT -> TableMapEventParse(packet.payload)
         [] packet.event_type = ROTATE_EVENT -> RotateEventParse(packet.payload)
         [] packet.event_type = FORMAT_DESCRIPTION_EVENT -> FormatDescriptionEventParse(packet.payload)
         [] packet.event_type = WRITE_ROWS_EVENTV0 ->
              RowEventAs("Insert", RowEventParse(packet.payload, FALSE, FALSE))
         [] packet.event_type = WRITE_ROWS_EVENTV1 ->
              RowEventAs("Insert", RowEventParse(packet.payload, FALSE, FALSE))
         [] packet.event_type = WRITE_ROWS_EVENTV2 ->
              RowEventAs("Insert", RowEventParse(packet.payload, TRUE, FALSE))
         [] packet.event_type = UPDATE_ROWS_EVENTV0 ->
              RowEventAs("Update", RowEventParse(packet.payload, FALSE, FALSE))
         [] packet.event_type = UPDATE_ROWS_EVENTV1 ->
              RowEventAs("Update", RowEventParse(packet.payload, FALSE, TRUE))
         [] packet.event_type = UPDATE_ROWS_EVENTV2 ->
              RowEventAs("Update", RowEventParse(packet.payload, TRUE, TRUE))
         [] packet.event_type = DELETE_ROWS_EVENTV0 ->
              RowEventAs("Delete", RowEventParse(packet.payload, FALSE, FALSE))
         [] packet.event_type = DELETE_ROWS_EVENTV1 ->
              RowEventAs("Delete", RowEventParse(packet.payload, FALSE, FALSE))
         [] packet.event_type = DELETE_ROWS_EVENTV2 ->
              RowEventAs("Delete", RowEventParse(packet.payload, TRUE, FALSE))
         [] OTHER -> EventPanic

\* what the tests of protocol_binlog.rs do with a packet: parse, then into_binlog_event
DecodeEvent(buf) == IntoBinlogEvent(BinlogEventPacketParse(buf))

\* the event packets of the model.  An event packet is the OK byte and a header of 19
\* bytes (timestamp 0, server id 1, log position 0, flags 0) before the payload.
EventPacketOfSize(event_type, event_size, payload) ==
  <<0>> \o PutUintLe(0, 4) \o <<event_type>> \o PutUintLe(1, 4)
        \o PutUintLe(event_size, 4) \o PutUintLe(0, 4) \o PutUintLe(0, 2)
        \o payload

\* the packet that announces the size it has
EventPacket(event_type, payload) ==
  EventPacketOfSize(event_type, EVENT_HEADER_LEN + Len(payload), payload)

\* a table map of table_id for the table d.t, its columns of the types given, none of
\* which has metadata: the column count, the types, a metadata length of 0 and a null
\* bitmap
TableMapPayload(table_id, types) ==
  PutUintLe(table_id, 6) \o PutUintLe(1, 2) \o <<1, 100, 0, 1, 116, 0>>
    \o <<Len(types)>> \o types \o <<0>> \o Zeros(BitmapLen(Len(types)))

\* a rotate to position 4 of the file "b"
RotatePayload == PutUintLe(4, 8) \o <<98>>

\* a row event of table_id: the extras with their length (version 2 only), cc columns,
\* the bitmaps, then the rows
RowsPayload(table_id, extras, cc, bitmaps, rs) ==
  PutUintLe(table_id, 6) \o PutUintLe(1, 2) \o extras \o <<cc>> \o bitmaps \o rs

\* the packets of the tests of protocol_binlog.rs, byte for byte
RotateFixture ==
  <<0, 0, 0, 0, 0, 4, 1, 0, 0, 0, 45, 0, 0, 0, 0, 0, 0, 0, 32, 0,
    150, 0, 0, 0, 0, 0, 0, 0, 115, 104, 111, 112, 105, 102, 121, 45, 98, 105, 110, 46,
    48, 48, 48, 48, 48, 53>>

FormatDescriptionFixture ==
  <<0, 242, 67, 93, 93, 15, 1, 0, 0, 0, 119, 0, 0, 0, 0, 0, 0, 0, 0, 0,
    4, 0, 53, 46, 55, 46, 49, 56, 45, 49, 54, 45, 108, 111, 103, 0, 0, 0, 0, 0,
    0, 0, 0, 0, 0, 0, 0, 0, 0, 0, 0, 0, 0, 0, 0, 0, 0, 0, 0, 0,
    0, 0, 0, 0, 0, 0, 0, 0, 0, 0, 0, 0, 0, 0, 0, 0, 19, 56, 13, 0,
    8, 0, 18, 0, 4, 4, 4, 4, 18, 0, 0, 95, 0, 4, 26, 8, 0, 0, 0, 8,
    8, 8, 2, 0, 0, 0, 10, 10, 10, 42, 42, 0, 18, 52, 0, 0, 194, 54, 12, 223>>

AnonymousGtidFixture ==
  <<0, 252, 90, 93, 93, 34, 1, 0, 0, 0, 61, 0, 0, 0, 211, 0, 0, 0, 0, 0,
    1, 0, 0, 0, 0, 0, 0, 0, 0, 0, 0, 0, 0, 0, 0, 0, 0, 0, 0, 0,
    0, 0, 0, 0, 0, 2, 0, 0, 0, 0, 0, 0, 0, 0, 1, 0, 0, 0, 0, 0,
    0, 0>>

QueryFixture ==
  <<0, 252, 90, 93, 93, 2, 1, 0, 0, 0, 68, 0, 0, 0, 23, 1, 0, 0, 8, 0,
    59, 24, 0, 0, 0, 0, 0, 0, 4, 0, 0, 26, 0, 0, 0, 0, 0, 0, 1, 0,
    0, 0, 64, 0, 0, 0, 0, 6, 3, 115, 116, 100, 4, 33, 0, 33, 0, 45, 0, 112,
    101, 116, 115, 0, 66, 69, 71, 73, 78>>

TableMapFixture ==
  <<0, 252, 90, 93, 93, 19, 1, 0, 0, 0, 50, 0, 0, 0, 73, 1, 0, 0, 0, 0,
    45, 10, 0, 0, 0, 0, 1, 0, 4, 112, 101, 116, 115, 0, 4, 99, 97, 116, 115, 0,
    4, 3, 15, 15, 10, 4, 88, 2, 88, 2, 0>>

InsertRowFixture ==
  <<0, 252, 90, 93, 93, 30, 1, 0, 0, 0, 55, 0, 0, 0, 128, 1, 0, 0, 0, 0,
    45, 10, 0, 0, 0, 0, 1, 0, 2, 0, 4, 255, 240, 4, 0, 0, 0, 7, 0, 67,
    104, 97, 114, 108, 105, 101, 5, 0, 82, 105, 118, 101, 114, 181, 192, 15>>

XidFixture ==
  <<0, 252, 90, 93, 93, 16, 1, 0, 0, 0, 27, 0, 0, 0, 155, 1, 0, 0, 0, 0,
    114, 14, 0, 0, 0, 0, 0, 0>>

-----------------------------------------------------------------------------
(* SpecBinlog: event packets decoded one after the other, each by          *)
(* BinlogEventPacket::parse and into_binlog_event, as the tests of         *)
(* protocol_binlog.rs do; items holds the events decoded so far.  (The     *)
(* connection itself never calls the decoders, see ReadBinlogEvent.)       *)

MaxEvents == 3

InitBinlog == InitConnected(ServerCapabilities, Options(FALSE))

TableIds == {1, 2}

\* the packet buf was parsed and the event made of it: the event is added to those
\* decoded; a decoder that panics ends the task
DecodedInto(buf, parsed, event) ==
  /\ pc = "idle"
  /\ IF event.st = "ok"
       THEN items' = Append(items, event) /\ UNCHANGED pc
       ELSE pc' = "panicked" /\ UNCHANGED items
  /\ last_packet' = [bytes |-> buf, parsed |-> parsed]
  /\ UNCHANGED codec
  /\ UNCHANGED <<peerVars, readVars, writeVars, connVars, handshakeVars, resVars,
                 sequence_id, cont, ret, binlog>>

DecodedAs(buf, parsed) == DecodedInto(buf, parsed, IntoBinlogEvent(parsed))

\* BinlogEventPacket::parse, then into_binlog_event, as the tests of protocol_binlog.rs
\* and the event stream do with a packet
Decoded(buf) == \E parsed \in BinlogEventPacketBuilds(buf) : DecodedAs(buf, parsed)

\* table maps: the packet of the test (LONG, VARCHAR, VARCHAR, DATE), and tables of
\* one and of two LONG columns
TableMapPackets ==
  {TableMapFixture}
    \cup {EventPacket(TABLE_MAP_EVENT, TableMapPayload(t, types)) :
            t \in TableIds, types \in {<<3>>, <<3, 3>>}}

DecodeTableMap ==
  /\ Len(items) < MaxEvents
  /\ \E buf \in TableMapPackets : Decoded(buf)

\* rotate events: the packet of the test; position 4 and the name "b"; a position of
\* three bytes and no name; a name that is not UTF-8; a body of three bytes; headers
\* that announce 18 bytes, and 40 bytes more than the packet has
RotatePackets ==
  {RotateFixture,
   EventPacket(ROTATE_EVENT, RotatePayload),
   EventPacket(ROTATE_EVENT, PutUintLe(70000, 8)),
   EventPacket(ROTATE_EVENT, PutUintLe(4, 8) \o <<255>>),
   EventPacket(ROTATE_EVENT, <<4, 0, 0>>),
   EventPacketOfSize(ROTATE_EVENT, EVENT_HEADER_LEN - 1, RotatePayload),
   EventPacketOfSize(ROTATE_EVENT, EVENT_HEADER_LEN + 40, RotatePayload)}

DecodeRotate ==
  /\ Len(items) < MaxEvents
  /\ \E buf \in RotatePackets : Decoded(buf)

\* format descriptions: the packet of the test; version 4 with an empty server version
\* and the create timestamp 43
FormatDescriptionPackets ==
  {FormatDescriptionFixture,
   EventPacket(FORMAT_DESCRIPTION_EVENT,
               <<4, 0>> \o Zeros(50) \o PutUintLe(43, 4) \o <<EVENT_HEADER_LEN>>)}

DecodeFormatDescription ==
  /\ Len(items) < MaxEvents
  /\ \E buf \in FormatDescriptionPackets : Decoded(buf)

RowEventTypes ==
  {WRITE_ROWS_EVENTV0, UPDATE_ROWS_EVENTV0, DELETE_ROWS_EVENTV0,
   WRITE_ROWS_EVENTV1, UPDATE_ROWS_EVENTV1, DELETE_ROWS_EVENTV1,
   WRITE_ROWS_EVENTV2, UPDATE_ROWS_EVENTV2, DELETE_ROWS_EVENTV2}

\* the row events a server writes for a table of two LONG columns: version 2 has
\* extras (here none: the length 2 covers itself), UPDATE of versions 1 and 2 has two
\* bitmaps.  Table 1 has both columns present and one row (null bitmap 00, values 5 and
\* 7); table 2 has only its first column present (null bitmap 00, value 5).
RowsPacket(event_type, t) ==
  EventPacket(event_type,
    RowsPayload(t,
      IF event_type >= WRITE_ROWS_EVENTV2 THEN <<2, 0>> ELSE <<>>,
      2,
      IF event_type \in {UPDATE_ROWS_EVENTV1, UPDATE_ROWS_EVENTV2}
        THEN <<5 - 2 * t, 5 - 2 * t>> ELSE <<5 - 2 * t>>,
      IF t = 1 THEN <<0>> \o PutUintLe(5, 4) \o PutUintLe(7, 4) ELSE <<0>> \o PutUintLe(5, 4)))

\* the row events of a table 1 of nine columns, all present, so that a bitmap has two
\* bytes; version 2 has one byte of extras (the length 3 covers itself)
WideRowsPacket(event_type) ==
  EventPacket(event_type,
    RowsPayload(1,
      IF event_type >= WRITE_ROWS_EVENTV2 THEN <<3, 0, 7>> ELSE <<>>,
      9,
      IF event_type \in {UPDATE_ROWS_EVENTV1, UPDATE_ROWS_EVENTV2}
        THEN <<255, 1, 255, 1>> ELSE <<255, 1>>,
      <<0, 0, 5>>))

\* row events: the packet of the test (WRITE_ROWS v2 of four columns), those of the
\* tables of two columns, and a WRITE_ROWS v1 and an UPDATE_ROWS v2 of nine columns
RowsPackets ==
  {InsertRowFixture}
    \cup {RowsPacket(event_type, t) : event_type \in RowEventTypes, t \in TableIds}
    \cup {WideRowsPacket(event_type) : event_type \in {WRITE_ROWS_EVENTV1, UPDATE_ROWS_EVENTV2}}

DecodeRows ==
  /\ Len(items) < MaxEvents
  /\ \E buf \in RowsPackets : Decoded(buf)

\* events into_binlog_event does not handle: the QUERY, ANONYMOUS_GTID and XID packets
\* of the tests, an XID event, a GTID event, events of the tags 0x24 and 0xFF, and a packet that
\* ends after its tag
UnhandledPackets ==
  {QueryFixture, AnonymousGtidFixture, XidFixture,
   EventPacket(XID_EVENT, PutUintLe(7, 8)),
   EventPacket(GTID_EVENT, <<1>>),
   EventPacket(36, <<>>),
   EventPacket(255, <<1>>),
   <<0, 0, 0, 0, 0, XID_EVENT>>}

DecodeUnhandled ==
  /\ Len(items) < MaxEvents
  /\ \E buf \in UnhandledPackets : Decoded(buf)

NextBinlog ==
  \/ DecodeTableMap
  \/ DecodeRotate
  \/ DecodeFormatDescription
  \/ DecodeRows
  \/ DecodeUnhandled

SpecBinlog == InitBinlog /\ [][NextBinlog]_vars

IsRowEvent(e) == e.kind \in {"Insert", "Update", "Delete"}

\* a table map for table id t has been decoded before the k-th event, and no rotate
\* since
LiveMap(k, t) ==
  \E j \in 1..(k - 1) :
    /\ items[j].kind = "TableMap" /\ items[j].table_id = t
    /\ \A i \in (j + 1)..(k - 1) : items[i].kind # "Rotate"

\* C18: a row event whose table id has no live table map (none since the last ROTATE)
\* is not decoded: it fails with InvalidData.
C18_NoLiveMap ==
  \A k \in 1..Len(items) :
    (IsRowEvent(items[k]) /\ ~LiveMap(k, items[k].table_id)) => items[k] = Err("InvalidData")

\* the number of bits set in the first cc bits of a bitmap
RECURSIVE Popcount(_, _)
Popcount(bitmap, cc) ==
  IF cc = 0 THEN 0
  ELSE Popcount(bitmap, cc - 1) + ((bitmap[1 + (cc - 1) \div 8] \div 2 ^ ((cc - 1) % 8)) % 2)

\* C19: the rows of a row event are decoded, each into a null bitmap of
\* ceil(present / 8) bytes and as many values as the present-bitmap has bits set: a row
\* event with columns present leaves none of its row bytes undecoded.
C19_RowValues ==
  \A k \in 1..Len(items) :
    (IsRowEvent(items[k]) /\ Popcount(items[k].column_bitmap1, items[k].column_count) > 0)
      => items[k].rows = <<>>

\* the packet decoded last was parsed as an event of type event_type
LastPacketIs(event_type) ==
  /\ last_packet.bytes # <<>>
  /\ last_packet.parsed.st = "ok"
  /\ last_packet.parsed.event_type = event_type

\* the packet decoded last has made an event, the last of items
LastDecoded == last_packet.bytes # <<>> /\ pc = "idle" /\ items # <<>>

LastItem == items[Len(items)]

\* "shopify-bin.000005"
ShopifyBin000005 ==
  <<115, 104, 111, 112, 105, 102, 121, 45, 98, 105, 110, 46, 48, 48, 48, 48, 48, 53>>

C25_FormatDescription ==
  (last_packet.bytes = FormatDescriptionFixture)
    => /\ LastDecoded
       /\ LastItem.kind = "Format"
       /\ LastItem.version = 4
       /\ ServerVersionStr(LastItem) = <<53, 46, 55, 46, 49, 56, 45, 49, 54, 45, 108, 111, 103>>
       /\ LastItem.create_timestamp = 43

\* the body of the packet decoded last
LastBody == last_packet.parsed.payload

\* the names of a table map body: the schema name starts at byte 10 of the body, after
\* its length at byte 9; the table name follows the 0x00 after the schema name
SchemaOf(body) == SubSeq(body, 10, 9 + body[9])
TableAt(body) == 11 + body[9]
TableOf(body) == SubSeq(body, TableAt(body) + 1, TableAt(body) + body[TableAt(body)])
ColumnCountAt(body) == TableAt(body) + body[TableAt(body)] + 2

\* C26: of every table map body TableMapEvent::parse makes a TableMap with the table id
\* of the first 6 bytes, the flags of the next 2, the schema and the table of the two
\* names and the column count that follows them; the packet of the test gives 2605, 1,
\* "pets", "cats" and 4.
C26_TableMapHead ==
  /\ LastPacketIs(TABLE_MAP_EVENT)
       => /\ LastDecoded
          /\ LastItem.kind = "TableMap"
          /\ LastItem.table_id = LeValue(Take(LastBody, 6))
          /\ LastItem.flags = LeValue(SubSeq(LastBody, 7, 8))
          /\ LastItem.schema = SchemaOf(LastBody)
          /\ LastItem.table = TableOf(LastBody)
          /\ LastItem.column_count = LastBody[ColumnCountAt(LastBody)]
  /\ (last_packet.bytes = TableMapFixture)
       => /\ LastDecoded
          /\ LastItem.table_id = 2605 /\ LastItem.flags = 1
          /\ LastItem.schema = <<112, 101, 116, 115>>
          /\ LastItem.table = <<99, 97, 116, 115>>
          /\ LastItem.column_count = 4

\* C29: the metadata of a VARCHAR column is the little-endian u16 of two bytes of the
\* metadata blob: the two VARCHAR columns of the test's table map have metadata 600.
C29_TwoByteMetadata ==
  (last_packet.bytes = TableMapFixture /\ LastDecoded)
    => LastItem.column_metas = <<0, 600, 600, 0>>

\* C30: the column types are consumed before the metadata length is read, and the
\* null bitmap is the (column_count + 7) / 8 bytes after the metadata blob: every
\* table map is decoded, its null bitmap being the last bytes of its body.
C30_TypesConsumed ==
  LastPacketIs(TABLE_MAP_EVENT)
    => /\ LastDecoded
       /\ LastItem.kind = "TableMap"
       /\ LastItem.null_bitmap =
            Drop(LastBody, Len(LastBody) - BitmapLen(LastBody[ColumnCountAt(LastBody)]))

\* the event types of version 2, and those of UPDATE_ROWS with two bitmaps
RowsV2 == {WRITE_ROWS_EVENTV2, UPDATE_ROWS_EVENTV2, DELETE_ROWS_EVENTV2}
UpdateRowsV1V2 == {UPDATE_ROWS_EVENTV1, UPDATE_ROWS_EVENTV2}

RowKindOf(event_type) ==
  IF event_type \in {WRITE_ROWS_EVENTV0, WRITE_ROWS_EVENTV1, WRITE_ROWS_EVENTV2} THEN "Insert"
  ELSE IF event_type \in {UPDATE_ROWS_EVENTV0, UPDATE_ROWS_EVENTV1, UPDATE_ROWS_EVENTV2} THEN "Update"
  ELSE "Delete"

\* the least n with 8 * n >= cc
Ceil8(cc) == CHOOSE n \in 0..32 : 8 * n >= cc /\ 8 * n < cc + 8

\* in a row event body of event_type, the place of the column count: after table id and
\* flags, and in version 2 after the extras, whose u16 length counts itself
RowColumnCountAt(event_type, body) ==
  IF event_type \in RowsV2 THEN 9 + LeValue(SubSeq(body, 9, 10)) ELSE 9

\* the row event made of body: what the claim says of it, n being the place of the
\* column count and len the length of a bitmap
RowEventIs(event, event_type, body, n, len) ==
  /\ event.kind = RowKindOf(event_type)
  /\ event.table_id = LeValue(Take(body, 6))
  /\ event.flags = LeValue(SubSeq(body, 7, 8))
  /\ event.extras = (IF event_type \in RowsV2 THEN SubSeq(body, 11, n - 1) ELSE <<>>)
  /\ event.column_count = body[n]
  /\ event.column_bitmap1 = SubSeq(body, n + 1, n + len)
  /\ Len(event.column_bitmap1) = len
  /\ event.column_bitmap2 =
       (IF event_type \in UpdateRowsV1V2 THEN SubSeq(body, n + len + 1, n + 2 * len) ELSE <<>>)
  /\ event.rows = Drop(body, IF event_type \in UpdateRowsV1V2 THEN n + 2 * len ELSE n + len)

\* C27: a row event of WRITE, UPDATE or DELETE, of version 0, 1 or 2, is decoded as
\* Insert, Update or Delete; the extras are read in version 2 only, a second bitmap for
\* UPDATE of versions 1 and 2 only; table id and flags are the first 6 and the next 2
\* bytes, each bitmap present has ceil(column_count / 8) bytes, the rest is the rows.
C27_RowEvents ==
  \A event_type \in RowEventTypes :
    LastPacketIs(event_type)
      => /\ LastDecoded
         /\ RowEventIs(LastItem, event_type, LastBody, RowColumnCountAt(event_type, LastBody),
                       Ceil8(LastBody[RowColumnCountAt(event_type, LastBody)]))

\* an UPDATE_ROWS of version 2 with extras and nine columns was decoded: two bitmaps of
\* two bytes
C27_Witness ==
  /\ LastPacketIs(UPDATE_ROWS_EVENTV2) /\ LastDecoded
  /\ LastItem.kind = "Update" /\ LastItem.extras = <<7>> /\ LastItem.column_count = 9
  /\ LastItem.column_bitmap1 = <<255, 1>> /\ LastItem.column_bitmap2 = <<255, 1>>
  /\ LastItem.rows = <<0, 0, 5>>

\* the size the header of the last packet announces: the u32 at header offset 9
AnnouncedSize == LeValue(SubSeq(last_packet.bytes, 11, 14))

\* the event type EventType::from is to make of a tag, as the claim lists them
EventTypeOfTag(tag) == IF tag > 35 THEN UNKNOWN_EVENT ELSE tag

\* C28: BinlogEventPacket::parse skips the OK byte and reads the header of 19 bytes:
\* timestamp, type, server id, size, next position and flags; the event type is that
\* of the tag at header offset 4 (0x02 QUERY, 0x10 XID, 0x22 ANONYMOUS_GTID, above 0x23
\* UNKNOWN_EVENT), and the body is what follows the header.  Headers that announce
\* fewer than 19 bytes are left to C32.
C28_Header ==
  /\ (/\ last_packet.bytes # <<>> /\ Len(last_packet.bytes) >= 1 + EVENT_HEADER_LEN
      /\ AnnouncedSize >= EVENT_HEADER_LEN)
       => /\ last_packet.parsed.st = "ok"
          /\ last_packet.parsed.timestamp = LeValue(SubSeq(last_packet.bytes, 2, 5))
          /\ last_packet.parsed.event_type = EventTypeOfTag(last_packet.bytes[6])
          /\ last_packet.parsed.server_id = LeValue(SubSeq(last_packet.bytes, 7, 10))
          /\ last_packet.parsed.log_pos = LeValue(SubSeq(last_packet.bytes, 15, 18))
          /\ last_packet.parsed.flags = LeValue(SubSeq(last_packet.bytes, 19, 20))
          /\ last_packet.parsed.payload = Drop(last_packet.bytes, 20)
  /\ last_packet.bytes = QueryFixture => last_packet.parsed.event_type = QUERY_EVENT
  /\ last_packet.bytes = XidFixture => last_packet.parsed.event_type = XID_EVENT
  /\ last_packet.bytes = AnonymousGtidFixture
       => last_packet.parsed.event_type = ANONYMOUS_GTID_EVENT
  /\ (last_packet.bytes # <<>> /\ last_packet.bytes[6] \in {36, 255})
       => last_packet.parsed.event_type = UNKNOWN_EVENT

\* a packet of the tag 0xFF was parsed, as an UNKNOWN_EVENT with a body of one byte
C28_Witness ==
  /\ last_packet.bytes # <<>> /\ last_packet.bytes[6] = 255
  /\ last_packet.parsed.st = "ok" /\ last_packet.parsed.event_type = UNKNOWN_EVENT
  /\ last_packet.parsed.payload = <<1>>

\* the event types the spec has passed through
PassThroughTypes == {QUERY_EVENT, XID_EVENT, GTID_EVENT, ANONYMOUS_GTID_EVENT}

\* C31: into_binlog_event on a QUERY, XID, GTID or ANONYMOUS_GTID event returns an
\* event: it does not abort, and the event is added to those decoded.
C31_PassThrough ==
  \A event_type \in PassThroughTypes :
    LastPacketIs(event_type) => LastDecoded

\* a whole header was handed to BinlogEventPacket::parse
HeaderParsed == last_packet.bytes # <<>> /\ Len(last_packet.bytes) >= 1 + EVENT_HEADER_LEN

\* C32: BinlogEventPacket::parse yields a body of exactly total_size - 19 bytes, where
\* total_size is the u32 at header offset 9; a header of a total_size below 19 is
\* rejected with an error, without an arithmetic underflow.
C32_BodyLength ==
  HeaderParsed =>
    IF AnnouncedSize < EVENT_HEADER_LEN
      THEN last_packet.parsed.st = "err"
      ELSE /\ last_packet.parsed.st = "ok"
           /\ Len(last_packet.parsed.payload) = AnnouncedSize - EVENT_HEADER_LEN

-----------------------------------------------------------------------------
(* Connection::binlog_stream, Connection::resume_binlog_stream and the     *)
(* event stream they return.                                               *)

\* QueryResults::pop: Vec::pop takes the last row, if there is one
Pop(rs) == IF rs = <<>> THEN <<>> ELSE <<rs[Len(rs)]>>

\* Value::as_str
AsStr(value) == IF value.kind = "Bytes" /\ IsUtf8(value.bytes) THEN <<value.bytes>> ELSE <<>>

IsDigits(b) == b # <<>> /\ \A i \in 1..Len(b) : b[i] \in 48..57

RECURSIVE StripZeros(_)
StripZeros(b) == IF b # <<>> /\ b[1] = 48 THEN StripZeros(Tail(b)) ELSE b

\* the digits a, as many as those of b, are a number not above b
RECURSIVE DigitsLeq(_, _)
DigitsLeq(a, b) ==
  \/ a = <<>>
  \/ a[1] < b[1]
  \/ a[1] = b[1] /\ DigitsLeq(Tail(a), Tail(b))

\* the digits of u32::MAX, 4294967295
U32MaxDigits == <<52, 50, 57, 52, 57, 54, 55, 50, 57, 53>>

\* str::parse::<u32> is Ok: decimal digits after an optional '+', not above u32::MAX
DigitsAreU32(d) ==
  /\ IsDigits(d)
  /\ \/ Len(StripZeros(d)) < Len(U32MaxDigits)
     \/ Len(StripZeros(d)) = Len(U32MaxDigits) /\ DigitsLeq(StripZeros(d), U32MaxDigits)

ParsesAsU32(b) == DigitsAreU32(IF b # <<>> /\ b[1] = 43 THEN Tail(b) ELSE b)

\* Value::as_u32: "some" or "none"; from_utf8(..).unwrap() panics on other bytes
AsU32(value) ==
  IF value.kind # "Bytes" THEN "none"
  ELSE IF ~IsUtf8(value.bytes) THEN "panic"
  ELSE IF ParsesAsU32(value.bytes) THEN "some" ELSE "none"

\* binlog_stream after pop: values[0].as_str().expect(..), values[1].as_u32().expect(..)
MasterStatusOf(values) ==
  IF Len(values) < 1 \/ AsStr(values[1]) = <<>> THEN "panic"
  ELSE IF Len(values) < 2 \/ AsU32(values[2]) # "some" THEN "panic"
  ELSE "some"

\* binlog_stream unwrapping the row of the position query, where it maps no row to
\* ReplicationDisabled
MasterStatusUnwrapped(rs) == IF Pop(rs) = <<>> THEN "panic" ELSE MasterStatusOf(Pop(rs)[1])

\* what binlog_stream makes of the result of the position query: "none" when there is
\* no row (ReplicationDisabled), "panic", or "some" file and position
MasterStatus(rs) == IF Pop(rs) = <<>> THEN "none" ELSE MasterStatusOf(Pop(rs)[1])

\* binlog_stream or resume_binlog_stream returns the error r to its caller
StreamReturns(r) ==
  /\ ret' = r
  /\ binlog' = NoStream
  /\ UNCHANGED <<peerVars, readVars, writeVars, connVars, handshakeVars, resVars,
                 sequence_id, pc, cont, items, last_packet, codec>>

StreamPanics ==
  /\ Panicked
  /\ UNCHANGED <<peerVars, readVars, writeVars, connVars, handshakeVars, resVars,
                 sequence_id, cont, streamVars>>

\* the caller holds the connection: no binlog_stream is running and no stream is alive
CallerHolds == binlog.at \in {"none", "dropped"}

\* Connection::binlog_stream up to its first suspension: pop("SHOW MASTER STATUS")
\* writes the query
BinlogStream ==
  /\ CallerHolds
  /\ Query(Size(18))
  /\ binlog' = [at |-> "position", file |-> <<>>]
  /\ UNCHANGED <<items, last_packet, codec>>

\* the position query has returned: an error goes up, no row is ReplicationDisabled;
\* with a file and a position resume_binlog_stream starts, and
\* ensure_checksum_is_disabled writes its SET
BinlogStreamPosition ==
  /\ binlog.at = "position" /\ pc = "idle"
  /\ IF ret.kind = "err" THEN StreamReturns(ret)
     ELSE IF MasterStatus(rows) = "none" THEN StreamReturns(Err("ReplicationDisabled"))
     ELSE IF MasterStatus(rows) = "panic" THEN StreamPanics
     ELSE /\ Query(Size(34))
          /\ binlog' = [at |-> "checksum", file |-> AsStr(Pop(rows)[1][1])[1]]
          /\ UNCHANGED <<items, last_packet, codec>>

\* Connection::resume_binlog_stream called with a file name and a position
ResumeBinlogStream(file) ==
  /\ CallerHolds
  /\ Query(Size(34))
  /\ binlog' = [at |-> "checksum", file |-> file]
  /\ UNCHANGED <<items, last_packet, codec>>

\* the SET has returned: register_as_replica, with the default ReplicationOptions,
\* writes COM_REGISTER_SLAVE
BinlogStreamChecksum ==
  /\ binlog.at = "checksum" /\ pc = "idle"
  /\ IF ret.kind = "err" THEN StreamReturns(ret)
     ELSE /\ RegisterAsReplica(0)
          /\ binlog' = [binlog EXCEPT !.at = "register"]
          /\ UNCHANGED <<items, last_packet, codec>>

\* the registration has returned: dump_binlog writes COM_BINLOG_DUMP
BinlogStreamRegister ==
  /\ binlog.at = "register" /\ pc = "idle"
  /\ IF ret.kind = "err" THEN StreamReturns(ret)
     ELSE /\ DumpBinlog(Len(binlog.file))
          /\ binlog' = [binlog EXCEPT !.at = "dump"]
          /\ UNCHANGED <<items, last_packet, codec>>

\* dump_binlog has returned: the stream is built over the connection and returned
BinlogStreamDump ==
  /\ binlog.at = "dump" /\ pc = "idle"
  /\ IF ret.kind = "err" THEN StreamReturns(ret)
     ELSE /\ binlog' = [binlog EXCEPT !.at = "streaming"]
          /\ UNCHANGED <<peerVars, readVars, writeVars, connVars, handshakeVars, resVars,
                         sequence_id, pc, cont, ret, items, last_packet, codec>>

\* the caller polls the stream: the closure of unfold calls read_binlog_event, which
\* starts with read_payload
StreamNext ==
  /\ binlog.at = "streaming" /\ pc = "idle"
  /\ ret.kind # "err"
  /\ pc' = "read" /\ cont' = "read_binlog_event" /\ ret' = NoRet
  /\ UNCHANGED <<peerVars, readVars, writeVars, connVars, handshakeVars, resVars,
                 sequence_id, streamVars>>

\* read_binlog_event after its read_payload: todo!()
ReadBinlogEventOn(r) ==
  /\ Received("read_binlog_event", r)
  /\ IF ~r.ok THEN OutOfSync ELSE Panicked
  /\ UNCHANGED <<peerVars, writeVars, connVars, handshakeVars, resVars, streamVars, cont>>

\* Connection::read_binlog_event
ReadBinlogEvent == ReadBinlogEventOn(ReadPayload)

\* read_binlog_event has returned an error: transpose makes it Some(Err(..)), the
\* closure of unfold returns it with the connection, and the stream yields the item;
\* the stream is ready to be polled again
StreamYield ==
  /\ binlog.at = "streaming" /\ pc = "idle" /\ cont = "read_binlog_event"
  /\ ret.kind = "err"
  /\ items' = Append(items, ret)
  /\ ret' = NoRet
  /\ UNCHANGED <<peerVars, readVars, writeVars, connVars, handshakeVars, resVars,
                 sequence_id, pc, cont, binlog, last_packet, codec>>

\* the caller drops the stream between two polls: the borrow of the connection ends
StreamDrop ==
  /\ binlog.at = "streaming" /\ pc = "idle"
  /\ ret.kind # "err"
  /\ binlog' = [at |-> "dropped", file |-> <<>>]
  /\ items' = <<>>
  /\ UNCHANGED <<peerVars, readVars, writeVars, connVars, handshakeVars, resVars,
                 sequence_id, pc, cont, ret, last_packet, codec>>

-----------------------------------------------------------------------------
(* SpecStream: a connected client whose caller starts binlog streams, polls *)
(* and drops them, and pings, whatever the operations before returned;      *)
(* against a server that answers queries with OK, ERR or the rows of SHOW   *)
(* MASTER STATUS, answers COM_BINLOG_DUMP with events, and may close.       *)

MaxStreamCmds == 5
MaxItems == 2

InitStream == \E adv \in Advertised : InitConnected(adv, Options(FALSE))

BinlogStreamNext == nCmds < MaxStreamCmds /\ BinlogStream

\* the caller resumes from the file "b"
ResumeBinlogStreamNext == nCmds < MaxStreamCmds /\ ResumeBinlogStream(<<98>>)

StreamNextItem == Len(items) < MaxItems /\ StreamNext

\* a ping, whatever the operation before it returned
PingAgain == CallerHolds /\ nCmds < MaxStreamCmds /\ Ping /\ UNCHANGED streamVars

\* the row of SHOW MASTER STATUS, two columns of it: the file is named "b", or "7",
\* and the position is 4
MasterStatusRows == {<<Bytes(<<98>>), Bytes(<<52>>)>>, <<Bytes(<<55>>), Bytes(<<52>>)>>}

ServerSendMasterStatus ==
  /\ srv.phase = "rows" /\ srv.n = 2 /\ srv.sent < MaxRows
  /\ \E row \in MasterStatusRows : ServerSend(RowPacket(row), "rows")

\* the events a server sends after COM_BINLOG_DUMP start with a rotate; it may also
\* refuse with an ERR packet
ServerStartDump ==
  /\ srv.inbox # <<>> /\ Head(srv.inbox).cmd = COM_BINLOG_DUMP
  /\ \E first \in {EventPacket(ROTATE_EVENT, RotatePayload), ErrPacket} :
       ServerAnswer(first, "events", 0)

ServerSendEvent ==
  /\ srv.phase = "events" /\ Len(wire) < MaxFrames
  /\ ServerSend(EventPacket(TABLE_MAP_EVENT, TableMapPayload(1, <<3, 3>>)), "events")

\* the server answers the commands before the dump
ServerOkReplyBefore ==
  /\ srv.inbox # <<>> /\ Head(srv.inbox).cmd # COM_BINLOG_DUMP
  /\ ServerOkReply

ServerErrReplyBefore ==
  /\ srv.inbox # <<>> /\ Head(srv.inbox).cmd # COM_BINLOG_DUMP
  /\ ServerErrReply

NextStream ==
  \/ BinlogStreamNext
  \/ ResumeBinlogStreamNext
  \/ BinlogStreamPosition
  \/ BinlogStreamChecksum
  \/ BinlogStreamRegister
  \/ BinlogStreamDump
  \/ StreamNextItem
  \/ StreamYield
  \/ StreamDrop
  \/ PingAgain
  \/ WriteFrameWhole
  \/ WriteFail
  \/ ServerOkReplyBefore
  \/ ServerErrReplyBefore
  \/ ServerResultSet
  \/ ServerSendColumn
  \/ ServerSendEof
  \/ ServerSendMasterStatus
  \/ ServerSendEnd
  \/ ServerStartDump
  \/ ServerSendEvent
  \/ PeerCloseRaw
  \/ SocketReadFrames
  \/ SocketEof
  \/ ReadOk
  \/ ReadGenericResponse
  \/ ReadResults
  \/ ReadColumns
  \/ ReadRows
  \/ ReadBinlogEvent

SpecStream == InitStream /\ [][NextStream]_vars

\* the errors after which the spec has the connection failed
ConnectionErrors == {"Io", "ConnectionClosed", "ConnectionResetByPeer", "PacketOutOfSync"}

\* C12: after an operation has returned an error other than an upstream error the
\* connection is failed: no later operation writes a command or reads the socket.
C12_Failed ==
  [][(CallerHolds /\ pc = "idle" /\ ret.kind = "err" /\ ret.err \in ConnectionErrors)
       => (nCmds' = nCmds /\ out' = out /\ buffer' = buffer)]_vars

\* C13: once COM_BINLOG_DUMP has been written no further command is written on the
\* connection, also after the event stream was dropped.
C13_Terminal ==
  [][(last_command_id = COM_BINLOG_DUMP /\ PayloadWritten) => nCmds' = nCmds]_vars

\* C14: binlog_stream writes its four commands one after the other: when the position
\* query has returned a row, binlog_stream goes on to the SET of the checksum.
C14_FourCommands ==
  (binlog.at = "position" /\ ret = Ok /\ rows # <<>>) => pc # "panicked"

\* C15: when the position query has returned a result with no row binlog_stream
\* returns ReplicationDisabled, and writes no further command.
C15_ReplicationDisabled ==
  [][(binlog.at = "position" /\ pc = "idle" /\ ret = Ok /\ rows = <<>>)
       => \/ UNCHANGED clientVars
          \/ /\ ret' = Err("ReplicationDisabled")
             /\ binlog' = NoStream
             /\ nCmds' = nCmds /\ out' = out /\ pc' = "idle"]_vars

\* binlog_stream has returned ReplicationDisabled for a result set without rows
C15_Witness ==
  /\ ret = Err("ReplicationDisabled") /\ binlog = NoStream
  /\ last_command_id = COM_QUERY /\ column_count > 0 /\ rows = <<>>
  /\ nCmds = 1

\* C16: after an error item the event stream has ended: it yields no further item.
C16_StreamEnds ==
  [][(binlog.at = "streaming" /\ items # <<>> /\ items[Len(items)].kind = "err")
       => Len(items') <= Len(items)]_vars

\* C17: in streaming every packet read yields an item: when more packets were read
\* than items were yielded, the stream holds the item of the last packet, to yield it.
C17_ItemPerPacket ==
  (binlog.at = "streaming" /\ nRead > Len(items)) => (pc = "idle" /\ ret.kind # "none")


\* C21: pop returns the first row of the result set: the file binlog_stream resumes
\* from is the file of the first row the position query returned.
C21_FirstRow ==
  [][(binlog.at = "position" /\ binlog'.at = "checksum")
       => binlog'.file = rows[1][1].bytes]_vars

-----------------------------------------------------------------------------
(* SpecCodec: the safe_* decoders of BufExt, each applied once to a cursor. *)

\* the cursors: empty; single bytes; texts with and without a terminator; length
\* prefixes of 1, 3, 4 and 9 bytes, whole and cut short, before values that are whole,
\* cut short and not UTF-8; the reserved prefix 0xFF
CodecInputs ==
  {<<>>, <<0>>, <<5>>, <<250>>, <<251>>, <<255>>, <<255, 1>>,
   <<104, 105>>, <<104, 0, 105>>, <<104, 105, 0>>, <<0, 104>>, <<200, 0>>,
   <<1, 104>>, <<2, 104>>, <<2, 104, 105, 0>>, <<3, 104, 105>>, <<1, 255>>,
   <<252>>, <<252, 1>>, <<252, 1, 0>>, <<252, 2, 0, 104>>, <<252, 2, 0, 104, 105>>,
   <<253, 1, 0>>, <<253, 1, 0, 0>>, <<253, 1, 2, 3, 9>>, <<253, 2, 0, 0, 104>>,
   <<254, 1, 0, 0, 0, 0, 0, 0>>, <<254, 2, 0, 0, 0, 0, 0, 0, 0>>,
   <<254, 2, 0, 0, 0, 0, 0, 0, 0, 104>>, <<254, 1, 0, 0, 0, 0, 0, 0, 0, 104>>}

InitCodec ==
  /\ wire = <<>> /\ wireLen = 0 /\ peerClosed = FALSE
  /\ sequence_id = 0 /\ srvSeq = 0
  /\ srv = InitSrv
  /\ buffer = [lo |-> 0, hi |-> 0]
  /\ last_command_id = 0
  /\ pc = "idle" /\ cont = "return" /\ ret = NoRet
  /\ wLen = Size(0) /\ wOff = Size(0) /\ out = <<>> /\ socketShort = FALSE
  /\ nRead = 0 /\ nCmds = 0
  /\ opts = Options(FALSE)
  /\ advertised = ServerCapabilities
  /\ capabilities = ServerCapabilities \cap DefaultCapabilities(Options(FALSE))
  /\ okState = HandleOk(NoOk)
  /\ auth_plugin_name = <<>> /\ handshake_response = <<>>
  /\ column_count = 0 /\ columns = <<>> /\ rows = <<>>
  /\ binlog = NoStream /\ items = <<>> /\ last_packet = NoPacket
  /\ codec \in {[NoCodec EXCEPT !.input = b] : b \in CodecInputs}

\* the decoder op, of the length n where it takes one, returns result
Called(op, n, result) ==
  /\ codec.op = "none"
  /\ codec' = [codec EXCEPT !.op = op, !.n = n, !.result = result]
  /\ UNCHANGED <<peerVars, readVars, writeVars, connVars, handshakeVars, resVars,
                 sequence_id, pc, cont, ret, binlog, items, last_packet>>

CallSafeGetU8 ==
  /\ pc = "idle"
  /\ Called("safe_get_u8", 1, SafeGetU8(codec.input))

CallSafeGetUintLe ==
  /\ pc = "idle"
  /\ \E nbytes \in {2, 3, 8} : Called("safe_get_uint_le", nbytes, SafeGetUintLe(codec.input, nbytes))

CallSafeGetLencUint ==
  /\ pc = "idle"
  /\ Called("safe_get_lenc_uint", 0, SafeGetLencUint(codec.input))

CallSafeGetLencBytes ==
  /\ pc = "idle"
  /\ Called("safe_get_lenc_bytes", 0, SafeGetLencBytes(codec.input))

CallSafeGetLencString ==
  /\ pc = "idle"
  /\ Called("safe_get_lenc_string", 0, SafeGetLencString(codec.input))

CallSafeGetFixedLengthString ==
  /\ pc = "idle"
  /\ \E len \in 0..3 :
       Called("safe_get_fixed_length_string", len, SafeGetFixedLengthString(codec.input, len))

CallSafeNullTerminatedString ==
  /\ pc = "idle"
  /\ Called("safe_null_terminated_string", 0, SafeNullTerminatedString(codec.input))

CallSafeGetEofString ==
  /\ pc = "idle"
  /\ Called("safe_get_eof_string", 0, SafeGetEofString(codec.input))

NextCodec ==
  \/ CallSafeGetU8
  \/ CallSafeGetUintLe
  \/ CallSafeGetLencUint
  \/ CallSafeGetLencBytes
  \/ CallSafeGetLencString
  \/ CallSafeGetFixedLengthString
  \/ CallSafeNullTerminatedString
  \/ CallSafeGetEofString

SpecCodec == InitCodec /\ [][NextCodec]_vars

\* the bytes a length-encoded integer takes at the head of b: its first byte and the 2,
\* 3 or 8 bytes that 0xFC, 0xFD and 0xFE announce
LencUintNeeds(b) ==
  IF b = <<>> THEN 1
  ELSE IF b[1] = 252 THEN 3
  ELSE IF b[1] = 253 THEN 4
  ELSE IF b[1] = 254 THEN 9
  ELSE 1

\* the bytes a length-prefixed value takes at the head of b: the prefix, and as many
\* bytes as a whole and valid prefix says
LencValueNeeds(b) ==
  IF Len(b) < LencUintNeeds(b) \/ b[1] = 255 THEN LencUintNeeds(b)
  ELSE LencUintNeeds(b) + LeValue(SubSeq(b, IF b[1] < 252 THEN 1 ELSE 2, LencUintNeeds(b)))

\* the bytes the decoder called needs of its cursor
Needs ==
  CASE codec.op \in {"safe_get_u8", "safe_get_uint_le", "safe_get_fixed_length_string"} -> codec.n
    [] codec.op = "safe_get_lenc_uint" -> LencUintNeeds(codec.input)
    [] codec.op \in {"safe_get_lenc_bytes", "safe_get_lenc_string"} -> LencValueNeeds(codec.input)
    [] OTHER -> 0

\* C37: every safe_* decoder, on a cursor with fewer bytes than it needs, returns
\* UnexpectedEof and does not abort; safe_get_lenc_bytes among them, when fewer bytes
\* remain than the length it decoded.
C37_Total ==
  codec.op # "none" =>
    /\ codec.result.st # "panic"
    /\ Len(codec.input) < Needs => codec.result.st = "eof"

\* C38: safe_null_terminated_string returns the bytes before the next 0x00 and leaves
\* the cursor after that 0x00; when no 0x00 remains it returns all the bytes and leaves
\* the cursor at the end.
C38_Terminator ==
  (/\ codec.op = "safe_null_terminated_string"
   /\ IsUtf8(Take(codec.input, NullTerminatedPos(codec.input))))
    => /\ codec.result.st = "ok"
       /\ codec.result.v = Take(codec.input, NullTerminatedPos(codec.input))
       /\ codec.result.b = Drop(codec.input, NullTerminatedPos(codec.input) + 1)

\* the length-encoded integer of i bytes after the first byte, and the cursor after it
LencUintIs(i) ==
  /\ codec.result.st = "ok"
  /\ codec.result.v = LeValue(SubSeq(codec.input, 2, 1 + i))
  /\ codec.result.b = Drop(codec.input, 1 + i)

\* C39: safe_get_lenc_uint reads one byte x: below 0xFC it returns x and has consumed 1
\* byte; for 0xFC, 0xFD, 0xFE it returns the next 2, 3, 8 bytes as a little-endian
\* integer and has consumed 3, 4, 9 bytes; for 0xFF it returns an error.
C39_LencUint ==
  (/\ codec.op = "safe_get_lenc_uint"
   /\ Len(codec.input) >= LencUintNeeds(codec.input))
    => IF codec.input[1] < 252
         THEN /\ codec.result.st = "ok"
              /\ codec.result.v = codec.input[1]
              /\ codec.result.b = Tail(codec.input)
       ELSE IF codec.input[1] = 252 THEN LencUintIs(2)
       ELSE IF codec.input[1] = 253 THEN LencUintIs(3)
       ELSE IF codec.input[1] = 254 THEN LencUintIs(8)
       ELSE codec.result.st = "invalid"

\* the integer 0x030201 was read after 0xFD, and one byte is left
C39_Witness ==
  /\ codec.op = "safe_get_lenc_uint" /\ codec.input = <<253, 1, 2, 3, 9>>
  /\ codec.result.st = "ok" /\ codec.result.v = 197121 /\ codec.result.b = <<9>>

-----------------------------------------------------------------------------
(* SpecGreeting: Handshake::parse and Handshake::nonce on the greeting of a  *)
(* server that advertises CLIENT_SECURE_CONNECTION, for every length byte.  *)

\* the values of the scramble length byte
ScrambleLens == 0..(U8 - 1)

\* the second part of the scramble a server sends for the length byte L, before its
\* trailing 0x00: max(13, L - 8) - 1 bytes, none of them 0
Scramble2Sent(L) == [i \in 1..(Max(13, L - 8) - 1) |-> 1 + (i % 100)]

InitGreeting ==
  /\ wire = <<>> /\ wireLen = 0 /\ peerClosed = FALSE
  /\ sequence_id = 0 /\ srvSeq = 0
  /\ srv = InitSrv
  /\ buffer = [lo |-> 0, hi |-> 0]
  /\ last_command_id = 0
  /\ pc = "idle" /\ cont = "return" /\ ret = NoRet
  /\ wLen = Size(0) /\ wOff = Size(0) /\ out = <<>> /\ socketShort = FALSE
  /\ nRead = 0 /\ nCmds = 0
  /\ opts = Options(FALSE)
  /\ advertised = ServerCapabilities
  /\ capabilities = ServerCapabilities \cap DefaultCapabilities(Options(FALSE))
  /\ okState = HandleOk(NoOk)
  /\ auth_plugin_name = <<>> /\ handshake_response = <<>>
  /\ column_count = 0 /\ columns = <<>> /\ rows = <<>>
  /\ binlog = NoStream /\ items = <<>> /\ last_packet = NoPacket
  /\ codec \in {[NoCodec EXCEPT
                   !.n = L,
                   !.input = GreetingOf(10, ServerCapabilities, MYSQL_NATIVE_PASSWORD_PLUGIN_NAME,
                                        L, Scramble2Sent(L))] : L \in ScrambleLens}

\* Handshake::parse on the greeting
CallHandshakeParse ==
  /\ pc = "idle"
  /\ \E handshake \in HandshakeParseBuilds(codec.input) : Called("parse", codec.n, handshake)

\* Handshake::nonce on the handshake parsed
CallNonce ==
  /\ pc = "idle"
  /\ codec.op = "parse" /\ codec.result.st = "ok"
  /\ codec' = [codec EXCEPT !.op = "nonce", !.result = Nonce(codec.result)]
  /\ UNCHANGED <<peerVars, readVars, writeVars, connVars, handshakeVars, resVars,
                 sequence_id, pc, cont, ret, binlog, items, last_packet>>

NextGreeting ==
  \/ CallHandshakeParse
  \/ CallNonce

SpecGreeting == InitGreeting /\ [][NextGreeting]_vars

\* C40: for every scramble length byte L of a greeting that advertises
\* CLIENT_SECURE_CONNECTION, Handshake::parse takes max(13, L - 8) bytes as the second
\* part of the scramble and strips its trailing 0x00, without overflow: the parse
\* succeeds, and the nonce has 8 + max(13, L - 8) - 1 bytes.
C40_ScrambleLength ==
  /\ codec.op = "parse" =>
       /\ codec.result.st = "ok"
       /\ codec.result.scramble_2 = Scramble2Sent(codec.n)
       /\ codec.result.auth_plugin_name = MYSQL_NATIVE_PASSWORD_PLUGIN_NAME
  /\ codec.op = "nonce" => Len(codec.result) = 8 + Max(13, codec.n - 8) - 1

=============================================================================
